---- MODULE Spec2Model ----
(***************************************************************************)
(* ClawStreet trading core: the portfolio ledger (cash, spot holdings),    *)
(* the futures engine, the options engine and the liquidation monitor.     *)
(*                                                                         *)
(* Money, prices and rates are IEEE doubles in the source.  They are       *)
(* modelled as exact rationals [n, d] in lowest terms (d > 0), so every    *)
(* equality below is an equality of real numbers; the rounding of double   *)
(* arithmetic is not modelled.                                             *)
(***************************************************************************)
EXTENDS Integers, Naturals, Sequences, FiniteSets, TLC

\* ------------------------------------------------------------------------
\* Bounds of the model
\* ------------------------------------------------------------------------
MaxOps == 3
MaxPositions == 2
MaxCashOps == 3
MaxLevOps == 3
MaxSpotOps == 4
MaxTradeOps == 3
MaxOptOps == 3
MaxLiveOps == 2
MaxSaves == 3
MaxCalls == 2
MaxQuoteOps == 3
MaxLifetimes == 2
MaxAcctOps == 3
MaxInFlight == 2
MaxTicks == 4

\* ------------------------------------------------------------------------
\* Exact rational arithmetic
\* ------------------------------------------------------------------------
Abs(x) == IF x < 0 THEN -x ELSE x

RECURSIVE GCD(_, _)
GCD(a, b) == IF b = 0 THEN a ELSE GCD(b, a % b)

\* every operator of the library reads each of its arguments once: the
\* arguments are bound as values before they are used
Norm(n, d) ==
  CHOOSE r \in {[n |-> x \div g, d |-> y \div g] :
                  <<x, y, g>> \in {<<n, d, GCD(Abs(n), d)>>}} : TRUE

R(i) == [n |-> i, d |-> 1]
Frac(a, b) == Norm(a, b)
Zero == R(0)
One == R(1)
\* JavaScript `undefined` for a number-valued slot (no rational has d = 0)
Undefined == [n |-> 0, d |-> 0]

RAdd(a, b) ==
  CHOOSE r \in {Norm(x.n * y.d + y.n * x.d, x.d * y.d) :
                  x \in {a}, y \in {b}} : TRUE
RNeg(a) == CHOOSE r \in {[n |-> -x.n, d |-> x.d] : x \in {a}} : TRUE
RSub(a, b) == RAdd(a, RNeg(b))
RMul(a, b) ==
  CHOOSE r \in {Norm(x.n * y.n, x.d * y.d) : x \in {a}, y \in {b}} : TRUE
RDiv(a, b) ==
  CHOOSE r \in {IF y.n > 0 THEN Norm(x.n * y.d, x.d * y.n)
                            ELSE Norm(-(x.n * y.d), x.d * (-y.n)) :
                  x \in {a}, y \in {b}} : TRUE
RLt(a, b) == \E x \in {a}, y \in {b} : x.n * y.d < y.n * x.d
RLe(a, b) == \E x \in {a}, y \in {b} : x.n * y.d <= y.n * x.d
RMax(a, b) == CHOOSE r \in {IF RLt(x, y) THEN y ELSE x :
                             x \in {a}, y \in {b}} : TRUE

\* ------------------------------------------------------------------------
\* Inputs the environment may supply
\* ------------------------------------------------------------------------
\* an optional argument that was omitted by the caller
UndefinedArg == -999

FuturesTickers == {"BTC", "ETH"}
\* tickers as typed by callers (mixed case)
RawTickers == {"BTC", "eth"}
OpenQuantities == {1, 5}
Leverages == {10, 150}
CloseQuantities == {UndefinedArg, 1, 4}
Sides == {"long", "short"}

\* prices a quote source may answer with, per requested symbol
QuotePrices(symbol) ==
  CASE symbol = "BTCUSDT" -> {R(54000), R(60000), R(66000)}
    [] symbol = "ETHUSDT" -> {R(3000)}
    [] OTHER -> {}

\* outcome of one fetchQuote call: a price, or Undefined when it throws
QuoteOutcomes(symbol) == QuotePrices(symbol) \cup {Undefined}

\* outcomes of the quote an open is filled at: positions are opened at the
\* middle price, the quotes of later operations move away from it
OpenQuoteOutcomes(symbol) ==
  IF symbol = "BTCUSDT" THEN {R(60000), Undefined} ELSE QuoteOutcomes(symbol)

ToUpperCase(t) ==
  CASE t = "eth" -> "ETH"
    [] t = "btc" -> "BTC"
    [] t = "nvda" -> "NVDA"
    [] t = "aapl" -> "AAPL"
    [] t = "btcusdt" -> "BTCUSDT"
    [] OTHER -> t

\* fetchMarkPrice's symbol: ticker.endsWith("USDT") ? ticker : ticker+"USDT"
MarkSymbol(t) ==
  CASE t = "BTC" -> "BTCUSDT"
    [] t = "ETH" -> "ETHUSDT"
    [] OTHER -> t

\* ------------------------------------------------------------------------
\* Margin calculator (pure)
\* ------------------------------------------------------------------------
DEFAULT_LEVERAGE == 20

calcInitialMargin(quantity, entryPrice, leverage) ==
  RDiv(RMul(R(quantity), entryPrice), R(leverage))

calcMaintenanceMarginRate(notionalValue) ==
  IF RLt(notionalValue, R(50000)) THEN Frac(4, 1000)
  ELSE IF RLt(notionalValue, R(250000)) THEN Frac(5, 1000)
  ELSE IF RLt(notionalValue, R(1000000)) THEN Frac(1, 100)
  ELSE Frac(25, 1000)

calcMaintenanceMargin(quantity, markPrice, mmRate) ==
  RMul(RMul(R(quantity), markPrice), mmRate)

calcLiquidationPrice(entryPrice, leverage, mmRate, side) ==
  IF side = "long"
  THEN RMul(entryPrice, RAdd(RSub(One, Frac(1, leverage)), mmRate))
  ELSE RMul(entryPrice, RSub(RAdd(One, Frac(1, leverage)), mmRate))

calcUnrealizedPnl(side, quantity, entryPrice, markPrice) ==
  IF side = "long"
  THEN RMul(RSub(markPrice, entryPrice), R(quantity))
  ELSE RMul(RSub(entryPrice, markPrice), R(quantity))

calcROE(unrealizedPnl, initialMargin) ==
  IF initialMargin = Zero THEN Zero
  ELSE RMul(RDiv(unrealizedPnl, initialMargin), R(100))

\* ------------------------------------------------------------------------
\* State
\* ------------------------------------------------------------------------
VARIABLES
  cash,               \* Portfolio.data.cash
  holdings,           \* Portfolio.data.holdings: ticker -> Holding
  transactionHistory, \* Portfolio.data.transactionHistory
  tickerTypes,        \* Portfolio.data.tickerTypes: ticker -> asset type
  fpositions,         \* FuturesEngine.data.positions
  leverageSettings,   \* FuturesEngine.data.leverageSettings (0 = no entry)
  ftransactions,      \* FuturesEngine.data.transactions
  opositions,         \* OptionsEngine.data.positions
  otransactions,      \* OptionsEngine.data.transactions
  now,                \* the wall clock, in hours
  nextId,             \* the next fresh position id (crypto.randomUUID)
  monitor,            \* locals of the running checkFuturesLiquidation call
  events,             \* what the broadcaster has been called with
  lastOp,             \* the operation that ran last, its arguments and result
  ledger,             \* per futures position id: margin debited, cash credited
  disk,               \* the files: name -> text
  heap,               \* the data objects of the process, by address
  saves,              \* the calls of store.save, in the order they started
  stores,             \* per storage path: the store's load and its data
  services,           \* per accessor: servicePromise, promises and callers
  qcache,             \* per quote provider: this.cache
  dateNow,            \* Date.now(), in ms
  pending,            \* the fetchQuote calls that wait for the exchange
  fetched,            \* per provider and key: the last fetch that succeeded
  lastQuote,          \* the last call on a quote provider and its result
  inflight,           \* the engine calls that were started, with their locals
  detached,           \* position objects that are not in an engine's array
  files,              \* portfolio.json and the engine files, as last saved
  timers              \* per background monitor: its interval timer and runs

spotVars == <<holdings, transactionHistory, tickerTypes>>
futuresVars == <<fpositions, leverageSettings, ftransactions>>
optionsVars == <<opositions, otransactions>>

asyncVars == <<inflight, detached, files, timers>>
engineVars == <<cash, spotVars, futuresVars, optionsVars, now, nextId,
                monitor, events, lastOp, ledger, asyncVars>>
storeVars == <<disk, heap, saves, stores>>
quoteVars == <<qcache, dateNow, pending, fetched, lastQuote>>
\* what an engine operation that runs without interruption leaves alone
ioVars == <<storeVars, services, quoteVars, asyncVars>>

vars == <<cash, holdings, transactionHistory, tickerTypes, fpositions,
          leverageSettings, ftransactions, opositions, otransactions, now,
          nextId, monitor, events, lastOp, ledger, disk, heap, saves, stores,
          services, qcache, dateNow, pending, fetched, lastQuote, inflight,
          detached, files, timers>>

EmptyMap == [t \in {} |-> 0]

BaseOp ==
  [seq |-> 0, op |-> "init", ok |-> FALSE, ticker |-> "", quantity |-> 0,
   side |-> "", leverage |-> 0, id |-> 0, price |-> Undefined,
   pnl |-> Undefined, credit |-> Undefined, cashBefore |-> Undefined,
   strike |-> 0, expiry |-> 0, raw |-> "", raised |-> FALSE,
   quoteFailed |-> FALSE, broadcast |-> FALSE, quotes |-> EmptyMap,
   at |-> 0, snapshot |-> EmptyMap]

\* every operation bumps the sequence number of lastOp
NextOp(f) ==
  [f EXCEPT !.seq = lastOp.seq + 1, !.cashBefore = cash, !.at = now]

NoPrices == [t \in FuturesTickers |-> Undefined]

\* aliased: data.positions is still the array the monitor iterates over
IdleMonitor ==
  [pc |-> "idle", positions |-> <<>>, prices |-> NoPrices, idx |-> 0,
   broadcast |-> FALSE, clean |-> TRUE, aliased |-> FALSE,
   txnStart |-> 0, cashStart |-> Zero]

\* a user operation that runs while a monitor tick is suspended
Interfere == IF monitor.pc = "idle" THEN monitor
             ELSE [monitor EXCEPT !.clean = FALSE]

\* ... and pushes a position onto data.positions: the monitor's for-of loop
\* sees it while it still iterates over that same array
InterferePush(position) ==
  IF monitor.pc = "idle" THEN monitor
  ELSE [monitor EXCEPT !.clean = FALSE,
                       !.positions = IF monitor.aliased
                                     THEN Append(@, position) ELSE @]

\* ... and replaces data.positions by a filtered copy
InterfereReplace ==
  IF monitor.pc = "idle" THEN monitor
  ELSE [monitor EXCEPT !.clean = FALSE, !.aliased = FALSE]

\* ------------------------------------------------------------------------
\* Portfolio ledger
\* ------------------------------------------------------------------------
\* Portfolio.adjustCash: the balance after adjusting c by delta
AdjustedCash(c, delta) == RMax(Zero, RAdd(c, delta))


\* Portfolio.adjustCash(delta), called directly on the ledger
AdjustCashDeltas == {R(-200000), R(-95000)}

AdjustCash(delta) ==
  /\ cash' = AdjustedCash(cash, delta)
  /\ lastOp' = NextOp([BaseOp EXCEPT !.op = "adjustCash", !.ok = TRUE,
                                     !.price = delta])
  /\ monitor' = Interfere
  /\ UNCHANGED <<spotVars, futuresVars, optionsVars, now, ioVars, nextId, events,
                 ledger>>

\* (mutation: reset also drops the engines' positions)
Reset_ClearsEngines(cashArg) ==
  /\ cash' = IF cashArg = UndefinedArg THEN R(100000) ELSE R(cashArg)
  /\ holdings' = EmptyMap
  /\ transactionHistory' = <<>>
  /\ tickerTypes' = EmptyMap
  /\ fpositions' = <<>>
  /\ opositions' = <<>>
  /\ lastOp' = NextOp([BaseOp EXCEPT !.op = "reset", !.ok = TRUE,
                                     !.quantity = cashArg])
  /\ monitor' = Interfere
  /\ UNCHANGED <<leverageSettings, ftransactions, otransactions, now, ioVars,
                 nextId, events, ledger>>

\* Portfolio.reset(cash = 100_000)
ResetArgs == {UndefinedArg, -1}

Reset(cashArg) ==
  /\ cash' = IF cashArg = UndefinedArg THEN R(100000) ELSE R(cashArg)
  /\ holdings' = EmptyMap
  /\ transactionHistory' = <<>>
  /\ tickerTypes' = EmptyMap
  /\ lastOp' = NextOp([BaseOp EXCEPT !.op = "reset", !.ok = TRUE,
                                     !.quantity = cashArg])
  /\ monitor' = Interfere
  /\ UNCHANGED <<futuresVars, optionsVars, now, ioVars, nextId, events, ledger>>

\* ------------------------------------------------------------------------
\* Futures engine
\* ------------------------------------------------------------------------
getLeverage(ticker) ==
  IF leverageSettings[ticker] = 0 THEN DEFAULT_LEVERAGE
  ELSE leverageSettings[ticker]

\* (mutation: the upper bound is exclusive)
LeverageOutOfRange_ExclusiveTop(lev) == lev < 1 \/ lev >= 150

\* the range test of openPosition and setLeverage
LeverageOutOfRange(lev) == lev < 1 \/ lev > 150

\* index of the position with this id in data.positions, 0 when absent
PosIndex(positions, id) ==
  IF \E i \in 1..Len(positions) : positions[i].id = id
  THEN CHOOSE i \in 1..Len(positions) : positions[i].id = id
  ELSE 0

\* (mutation: the filter keeps every position)
WithoutPosition_Keeps(positions, id) == positions

\* data.positions.filter((p) => p.id !== positionId)
WithoutPosition(positions, id) == SelectSeq(positions, LAMBDA p : p.id # id)

PositionIds(positions) == {positions[i].id : i \in 1..Len(positions)}

NewPosition(id, ticker, side, quantity, markPrice, lev) ==
  LET initialMargin == calcInitialMargin(quantity, markPrice, lev)
      notional == RMul(R(quantity), markPrice)
      mmRate == calcMaintenanceMarginRate(notional)
      liqPrice == calcLiquidationPrice(markPrice, lev, mmRate, side)
  IN [id |-> id, ticker |-> ticker, side |-> side, quantity |-> quantity,
      entryPrice |-> markPrice, markPrice |-> markPrice, leverage |-> lev,
      initialMargin |-> initialMargin,
      maintenanceMargin |-> calcMaintenanceMargin(quantity, markPrice, mmRate),
      marginBalance |-> initialMargin,
      liquidationPrice |-> liqPrice,
      maintenanceMarginRate |-> mmRate,
      unrealizedPnl |-> Zero, roe |-> Zero, realizedPnl |-> Zero]

FuturesTxn(type, ticker, quantity, price, leverage, pnl) ==
  [type |-> type, ticker |-> ticker, quantity |-> quantity, price |-> price,
   leverage |-> leverage, pnl |-> pnl]

\* an operation that returns without touching the engines or the ledger
Rejected(op) ==
  /\ lastOp' = NextOp([op EXCEPT !.ok = FALSE])
  /\ monitor' = Interfere
  /\ UNCHANGED <<cash, spotVars, futuresVars, optionsVars, now, ioVars, nextId,
                 events, ledger>>

\* (mutation: an operation whose quote fetch threw is still written to the
\* trade log)
QuoteFailure_Logged(op) ==
  /\ lastOp' = NextOp([op EXCEPT !.ok = FALSE, !.quoteFailed = TRUE])
  /\ monitor' = Interfere
  /\ transactionHistory' = Append(transactionHistory, op)
  /\ UNCHANGED <<cash, holdings, tickerTypes, futuresVars, optionsVars, now, ioVars,
                 nextId, events, ledger>>

\* the catch branch around a quote fetch: the operation returns
\* success=false
QuoteFailure(op) == Rejected([op EXCEPT !.quoteFailed = TRUE])

\* FuturesEngine.openLong / openShort -> openPosition
OpenPosition(rawTicker, quantity, side, leverage, quote) ==
  LET ticker == ToUpperCase(rawTicker)
      lev == IF leverage = UndefinedArg THEN getLeverage(ticker) ELSE leverage
      op == [BaseOp EXCEPT !.op = "openPosition", !.ticker = ticker,
                           !.quantity = quantity, !.side = side,
                           !.leverage = lev, !.price = quote,
                           !.raw = rawTicker]
  IN
  /\ IF quantity <= 0 THEN Rejected(op)
     ELSE IF LeverageOutOfRange(lev) THEN Rejected(op)
     ELSE IF quote = Undefined THEN QuoteFailure(op)
     ELSE IF RLt(cash, calcInitialMargin(quantity, quote, lev)) THEN Rejected(op)
     ELSE
       LET position == NewPosition(nextId, ticker, side, quantity, quote, lev)
       IN
       /\ cash' = AdjustedCash(cash, RNeg(position.initialMargin))
       /\ fpositions' = Append(fpositions, position)
       /\ ftransactions' = Append(ftransactions,
            FuturesTxn(IF side = "long" THEN "open_long" ELSE "open_short",
                       ticker, quantity, quote, lev, Undefined))
       /\ nextId' = nextId + 1
       /\ ledger' = ledger @@ (nextId :> [debited |-> position.initialMargin,
                                          credited |-> Zero,
                                          liquidated |-> <<>>,
                                          opened |-> quantity])
       /\ lastOp' = NextOp([op EXCEPT !.ok = TRUE, !.id = nextId,
                                      !.pnl = Zero])
       /\ monitor' = InterferePush(position)
       /\ UNCHANGED <<spotVars, leverageSettings, optionsVars, now, ioVars, events>>

\* (mutation: the amount is never compared with what is held)
ExceedsHeld_Never(amount, held) == FALSE

\* the test of closePosition, sellOption and sellStock for an amount larger
\* than what the position or holding has
ExceedsHeld(amount, held) == amount > held

\* (mutation: a partial close leaves the position's margin as it was)
PartiallyClosed_KeepsMargin(pos, closeQty, marginReleased, pnl) ==
  [pos EXCEPT !.quantity = pos.quantity - closeQty,
              !.realizedPnl = RAdd(pos.realizedPnl, pnl)]

\* the position after a partial close of closeQty at this pnl
PartiallyClosed(pos, closeQty, marginReleased, pnl) ==
  LET im == RSub(pos.initialMargin, marginReleased)
  IN [pos EXCEPT !.quantity = pos.quantity - closeQty,
                 !.initialMargin = im,
                 !.marginBalance = im,
                 !.realizedPnl = RAdd(pos.realizedPnl, pnl)]

\* (mutation: the isolated-margin floor is dropped)
CloseCashReturn_NoFloor(marginReleased, pnl) == RAdd(marginReleased, pnl)

\* cash handed back by a close: Math.max(0, marginReleased + pnl)
CloseCashReturn(marginReleased, pnl) == RMax(Zero, RAdd(marginReleased, pnl))

\* (mutation: the released margin is not scaled by the position's quantity)
MarginReleased_NoShare(pos, closeQty) == RMul(R(closeQty), pos.initialMargin)

\* margin released by closing closeQty: (closeQty / quantity) * initialMargin
MarginReleased(pos, closeQty) ==
  RMul(RDiv(R(closeQty), R(pos.quantity)), pos.initialMargin)

\* FuturesEngine.closePosition(positionId, quantity?)
ClosePosition(positionId, quantity) ==
  LET i == PosIndex(fpositions, positionId)
      op == [BaseOp EXCEPT !.op = "closePosition", !.id = positionId,
                           !.quantity = quantity]
  IN
  /\ IF i = 0 THEN Rejected(op)
     ELSE
       LET pos == fpositions[i]
           closeQty == IF quantity = UndefinedArg THEN pos.quantity ELSE quantity
           cop == [op EXCEPT !.quantity = closeQty, !.ticker = pos.ticker,
                             !.side = pos.side, !.leverage = pos.leverage]
       IN
       IF closeQty <= 0 THEN Rejected(cop)
       ELSE IF ExceedsHeld(closeQty, pos.quantity) THEN Rejected(cop)
       ELSE \E quote \in QuoteOutcomes(MarkSymbol(pos.ticker)) :
         IF quote = Undefined THEN QuoteFailure(cop)
         ELSE
           LET pnl == calcUnrealizedPnl(pos.side, closeQty, pos.entryPrice, quote)
               marginReleased == MarginReleased(pos, closeQty)
               cashReturn == CloseCashReturn(marginReleased, pnl)
               remaining == pos.quantity - closeQty
           IN
           /\ cash' = AdjustedCash(cash, cashReturn)
           /\ fpositions' =
                IF remaining = 0 THEN WithoutPosition(fpositions, positionId)
                ELSE [fpositions EXCEPT
                        ![i] = PartiallyClosed(pos, closeQty, marginReleased, pnl)]
           /\ ftransactions' = Append(ftransactions,
                FuturesTxn(IF pos.side = "long" THEN "close_long" ELSE "close_short",
                           pos.ticker, closeQty, quote, 0, pnl))
           /\ ledger' = [ledger EXCEPT ![positionId].credited =
                           RAdd(@, RSub(cash', cash))]
           /\ lastOp' = NextOp([cop EXCEPT !.ok = TRUE, !.price = quote,
                                           !.pnl = pnl, !.credit = cashReturn])
           /\ monitor' = IF remaining = 0 THEN InterfereReplace ELSE Interfere
           /\ UNCHANGED <<spotVars, leverageSettings, optionsVars, now, ioVars,
                          nextId, events>>

\* (mutation: open positions are not looked at)
HasPosition_None(ticker) == FALSE

\* data.positions.some((p) => p.ticker === normalized)
HasPosition(ticker) == \E i \in 1..Len(fpositions) : fpositions[i].ticker = ticker

\* leverages a caller may pass to setLeverage, openLong and openShort
BoundaryLeverages == {0, 1, 150, 151}

\* FuturesEngine.setLeverage(ticker, leverage)
SetLeverage(rawTicker, leverage) ==
  LET normalized == ToUpperCase(rawTicker)
      op == [BaseOp EXCEPT !.op = "setLeverage", !.ticker = normalized,
                           !.leverage = leverage, !.raw = rawTicker]
  IN
  IF LeverageOutOfRange(leverage) THEN Rejected(op)
  ELSE IF HasPosition(normalized) THEN Rejected(op)
  ELSE
    /\ leverageSettings' = [leverageSettings EXCEPT ![normalized] = leverage]
    /\ lastOp' = NextOp([op EXCEPT !.ok = TRUE])
    /\ monitor' = Interfere
    /\ UNCHANGED <<cash, spotVars, fpositions, ftransactions, optionsVars,
                   now, ioVars, nextId, events, ledger>>

TickersOf(positions) == {positions[i].ticker : i \in 1..Len(positions)}

\* the quotes a sweep over these tickers may collect: one outcome per ticker
\* present, Undefined for the tickers that are not fetched
FetchedPrices(tickers) ==
  {prices \in [FuturesTickers ->
                 UNION {QuoteOutcomes(MarkSymbol(t)) : t \in FuturesTickers}] :
     \A t \in FuturesTickers :
       IF t \in tickers THEN prices[t] \in QuoteOutcomes(MarkSymbol(t))
       ELSE prices[t] = Undefined}

\* (mutation: the refresh leaves the unrealized pnl as it was)
Refreshed_KeepsPnl(pos, mp) == [pos EXCEPT !.markPrice = mp]

\* the position after getPositions refreshed it at mark price mp
Refreshed(pos, mp) ==
  LET upnl == calcUnrealizedPnl(pos.side, pos.quantity, pos.entryPrice, mp)
      notional == RMul(R(pos.quantity), mp)
      mmRate == calcMaintenanceMarginRate(notional)
  IN [pos EXCEPT !.markPrice = mp,
                 !.unrealizedPnl = upnl,
                 !.roe = calcROE(upnl, pos.initialMargin),
                 !.maintenanceMarginRate = mmRate,
                 !.maintenanceMargin = calcMaintenanceMargin(pos.quantity, mp, mmRate)]

\* FuturesEngine.getPositions(): prices[t] is Undefined where the fetch threw
GetPositions ==
  /\ IF fpositions = <<>> THEN UNCHANGED fpositions
     ELSE \E prices \in FetchedPrices(TickersOf(fpositions)) :
       fpositions' = [i \in 1..Len(fpositions) |->
            LET pos == fpositions[i]
                mp == IF prices[pos.ticker] = Undefined THEN pos.markPrice
                      ELSE prices[pos.ticker]
            IN Refreshed(pos, mp)]
  /\ lastOp' = NextOp([BaseOp EXCEPT !.op = "getPositions", !.ok = TRUE])
  /\ monitor' = Interfere
  /\ UNCHANGED <<cash, spotVars, leverageSettings, ftransactions,
                 optionsVars, now, ioVars, nextId, events, ledger>>


\* ------------------------------------------------------------------------
\* Liquidation monitor (checkFuturesLiquidation)
\* ------------------------------------------------------------------------
\* (mutation: shorts are tested like longs)
shouldLiquidate_SameTest(pos, markPrice) ==
  RLe(markPrice, pos.liquidationPrice)

\* the monitor's test on one position at the fetched mark price
shouldLiquidate(pos, markPrice) ==
  \/ pos.side = "long" /\ RLe(markPrice, pos.liquidationPrice)
  \/ pos.side = "short" /\ RLe(pos.liquidationPrice, markPrice)

\* FuturesEngine.liquidatePosition: cash handed back
LiquidationCashReturn(pos, pnl) == RMax(Zero, RAdd(pos.marginBalance, pnl))

\* (mutation: the reported pnl is not capped at the margin balance)
LiquidationPnl_Raw(pos, pnl) == pnl

\* FuturesEngine.liquidatePosition: the pnl reported in info and transaction
LiquidationPnl(pos, pnl) == RMax(RNeg(pos.marginBalance), pnl)

\* (mutation: the payload reports the entry price as the mark price)
LiquidationEvent_EntryAsMark(id, info, markPrice) ==
  [event |-> "futures.liquidation", id |-> id, ticker |-> info.ticker,
   side |-> info.side, quantity |-> info.quantity,
   entryPrice |-> info.entryPrice, markPrice |-> info.entryPrice,
   pnl |-> info.pnl]

\* payload the monitor broadcasts (id identifies the position in the model
\* only; the payload of the source carries no id)
LiquidationEvent(id, info, markPrice) ==
  [event |-> "futures.liquidation", id |-> id, ticker |-> info.ticker,
   side |-> info.side, quantity |-> info.quantity,
   entryPrice |-> info.entryPrice, markPrice |-> markPrice, pnl |-> info.pnl]

\* start of a tick: take the positions array, fetch one quote per ticker
TickStart(broadcast) ==
  /\ monitor.pc = "idle"
  /\ lastOp' = NextOp([BaseOp EXCEPT !.op = "checkFuturesLiquidation",
                                     !.ok = TRUE])
  /\ IF fpositions = <<>>
     THEN monitor' = IdleMonitor
     ELSE \E prices \in FetchedPrices(TickersOf(fpositions)) :
            monitor' = [pc |-> "loop", positions |-> fpositions,
                        prices |-> prices, idx |-> 1,
                        broadcast |-> broadcast, clean |-> TRUE,
                        aliased |-> TRUE,
                        txnStart |-> Len(ftransactions), cashStart |-> cash]
  /\ UNCHANGED <<cash, spotVars, futuresVars, optionsVars, now, ioVars, nextId,
                 events, ledger>>

\* (mutation: a failed quote falls back to the position's last mark)
MonitorMarkPrice_Stale(prices, pos) ==
  IF prices[pos.ticker] = Undefined THEN pos.markPrice ELSE prices[pos.ticker]

\* const markPrice = prices[pos.ticker]
MonitorMarkPrice(prices, pos) == prices[pos.ticker]

\* one iteration of the monitor's loop over the snapshot
TickStep ==
  /\ monitor.pc = "loop"
  /\ LET snap == monitor.positions[monitor.idx]
         markPrice == MonitorMarkPrice(monitor.prices, snap)
         i == PosIndex(fpositions, snap.id)
         liquidates == /\ markPrice # Undefined
                       /\ shouldLiquidate(snap, markPrice)
                       /\ i # 0
         advanced == [monitor EXCEPT
                        !.idx = @ + 1,
                        !.aliased = @ /\ ~liquidates,
                        !.pc = IF monitor.idx = Len(monitor.positions)
                               THEN "idle" ELSE "loop"]
         op == [BaseOp EXCEPT !.op = "liquidationStep", !.id = snap.id,
                              !.seq = lastOp.seq, !.cashBefore = cash,
                              !.price = markPrice,
                              !.ticker = snap.ticker, !.side = snap.side]
     IN
     /\ monitor' = advanced
     /\ IF ~liquidates
        THEN /\ lastOp' = op
             /\ UNCHANGED <<cash, fpositions, ftransactions, events, ledger>>
        ELSE
          LET pos == fpositions[i]
              pnl == calcUnrealizedPnl(pos.side, pos.quantity, pos.entryPrice,
                                       markPrice)
              cashReturn == LiquidationCashReturn(pos, pnl)
              info == [ticker |-> pos.ticker, side |-> pos.side,
                       quantity |-> pos.quantity,
                       entryPrice |-> pos.entryPrice,
                       pnl |-> LiquidationPnl(pos, pnl)]
          IN
          /\ cash' = AdjustedCash(cash, cashReturn)
          /\ fpositions' = WithoutPosition(fpositions, snap.id)
          /\ ftransactions' = Append(ftransactions,
               FuturesTxn("liquidation", pos.ticker, pos.quantity, markPrice,
                          0, info.pnl))
          /\ events' = IF monitor.broadcast
                       THEN Append(events, LiquidationEvent(snap.id, info, markPrice))
                       ELSE events
          /\ ledger' = [ledger EXCEPT
               ![snap.id].credited = RAdd(@, RSub(cash', cash)),
               ![snap.id].liquidated =
                  <<[pos |-> pos, markPrice |-> markPrice,
                     broadcast |-> monitor.broadcast]>>]
          /\ lastOp' = [op EXCEPT !.ok = TRUE, !.pnl = info.pnl,
                                  !.credit = cashReturn,
                                  !.quantity = pos.quantity]
  /\ UNCHANGED <<spotVars, leverageSettings, optionsVars, now, ioVars, nextId>>

\* ------------------------------------------------------------------------
\* Spot engine (TradingEngine) and the ledger's buyStock / sellStock
\* ------------------------------------------------------------------------
UndefinedType == "undefined"

\* prices the stock quote source may answer with
StockQuotePrices(symbol) ==
  CASE symbol = "NVDA" -> {R(800), R(900)}
    [] symbol = "AAPL" -> {R(200), R(800)}
    [] OTHER -> {}

\* TradingEngine.fetchPrice: outcomes for this ticker and asset type
SpotQuoteOutcomes(ticker, assetType) ==
  IF assetType = "stock" THEN StockQuotePrices(ticker) \cup {Undefined}
  ELSE QuoteOutcomes(MarkSymbol(ticker))

\* Portfolio.getTickerType
getTickerType(ticker) ==
  IF ticker \in DOMAIN tickerTypes THEN tickerTypes[ticker] ELSE "crypto"

SpotTxn(type, ticker, quantity, price) ==
  [type |-> type, ticker |-> ticker, quantity |-> quantity, price |-> price]

\* asset class written by buyStock for this asset type ("none": no field)
AssetClassOf(assetType) ==
  IF assetType = "stock" THEN "us_stock_spot"
  ELSE IF assetType = "crypto" THEN "crypto_spot" ELSE "none"

\* (mutation: the last execution price replaces the average)
BoughtHolding_LastPrice(ticker, quantity, price, assetType) ==
  LET ac == AssetClassOf(assetType)
  IN IF ticker \in DOMAIN holdings
     THEN [quantity |-> holdings[ticker].quantity + quantity,
           averagePrice |-> price,
           assetClass |-> IF ac # "none" THEN ac
                          ELSE holdings[ticker].assetClass]
     ELSE [quantity |-> quantity, averagePrice |-> price, assetClass |-> ac]

\* the holding of ticker after buying quantity at price
BoughtHolding(ticker, quantity, price, assetType) ==
  LET ac == AssetClassOf(assetType)
      cost == RMul(R(quantity), price)
  IN IF ticker \in DOMAIN holdings
     THEN LET current == holdings[ticker]
              totalQuantity == current.quantity + quantity
              totalCost == RAdd(RMul(R(current.quantity), current.averagePrice), cost)
          IN [quantity |-> totalQuantity,
              averagePrice |-> RDiv(totalCost, R(totalQuantity)),
              assetClass |-> IF ac # "none" THEN ac ELSE current.assetClass]
     ELSE [quantity |-> quantity, averagePrice |-> price, assetClass |-> ac]

\* Portfolio.buyStock's test for funds
InsufficientCash(c, cost) == RLt(c, cost)

\* TradingEngine.executeBuy -> Portfolio.buyStock
ExecuteBuy(rawTicker, quantity, type) ==
  LET ticker == ToUpperCase(rawTicker)
      assetType == IF type = UndefinedType THEN getTickerType(ticker) ELSE type
      op == [BaseOp EXCEPT !.op = "executeBuy", !.ticker = ticker,
                           !.quantity = quantity, !.side = assetType]
  IN
  IF quantity <= 0 THEN Rejected(op)
  ELSE \E quote \in SpotQuoteOutcomes(ticker, assetType) :
    LET qop == [op EXCEPT !.price = quote]
        cost == RMul(R(quantity), quote)
    IN
    IF quote = Undefined THEN QuoteFailure(qop)
    ELSE IF RLe(quote, Zero) THEN Rejected(qop)
    ELSE IF InsufficientCash(cash, cost) THEN Rejected(qop)
    ELSE
      /\ cash' = RSub(cash, cost)
      /\ holdings' = [t \in DOMAIN holdings \cup {ticker} |->
                        IF t = ticker
                        THEN BoughtHolding(ticker, quantity, quote, assetType)
                        ELSE holdings[t]]
      /\ tickerTypes' = [t \in DOMAIN tickerTypes \cup {ticker} |->
                           IF t = ticker THEN assetType ELSE tickerTypes[t]]
      /\ transactionHistory' = Append(transactionHistory,
                                      SpotTxn("buy", ticker, quantity, quote))
      /\ lastOp' = NextOp([qop EXCEPT !.ok = TRUE])
      /\ monitor' = Interfere
      /\ UNCHANGED <<futuresVars, optionsVars, now, ioVars, nextId, events, ledger>>

\* (mutation: a holding sold out stays as an entry of quantity zero)
SoldHoldings_KeepsEmpty(ticker, quantity) ==
  [holdings EXCEPT ![ticker] =
     [quantity |-> holdings[ticker].quantity - quantity,
      averagePrice |-> holdings[ticker].averagePrice,
      assetClass |-> "none"]]

\* data.holdings after sellStock took quantity out of ticker's holding: the
\* entry is deleted at zero, else rewritten as {quantity, averagePrice}
SoldHoldings(ticker, quantity) ==
  LET current == holdings[ticker]
      remaining == current.quantity - quantity
  IN IF remaining = 0
     THEN [t \in DOMAIN holdings \ {ticker} |-> holdings[t]]
     ELSE [holdings EXCEPT ![ticker] =
             [quantity |-> remaining,
              averagePrice |-> current.averagePrice,
              assetClass |-> "none"]]

\* TradingEngine.executeSell -> Portfolio.sellStock
ExecuteSell(rawTicker, quantity, type) ==
  LET ticker == ToUpperCase(rawTicker)
      assetType == IF type = UndefinedType THEN getTickerType(ticker) ELSE type
      op == [BaseOp EXCEPT !.op = "executeSell", !.ticker = ticker,
                           !.quantity = quantity, !.side = assetType]
  IN
  IF quantity <= 0 THEN Rejected(op)
  ELSE \E quote \in SpotQuoteOutcomes(ticker, assetType) :
    LET qop == [op EXCEPT !.price = quote]
    IN
    IF quote = Undefined THEN QuoteFailure(qop)
    ELSE IF RLe(quote, Zero) THEN Rejected(qop)
    ELSE IF ticker \notin DOMAIN holdings THEN Rejected(qop)
    ELSE IF ExceedsHeld(quantity, holdings[ticker].quantity) THEN Rejected(qop)
    ELSE
      /\ cash' = RAdd(cash, RMul(R(quantity), quote))
      /\ holdings' = SoldHoldings(ticker, quantity)
      /\ transactionHistory' = Append(transactionHistory,
                                      SpotTxn("sell", ticker, quantity, quote))
      /\ lastOp' = NextOp([qop EXCEPT !.ok = TRUE])
      /\ monitor' = Interfere
      /\ UNCHANGED <<tickerTypes, futuresVars, optionsVars, now, ioVars, nextId,
                     events, ledger>>

\* ------------------------------------------------------------------------
\* Options pricing (pure)
\* ------------------------------------------------------------------------
DEFAULT_IV == Frac(35, 100)

getImpliedVol(ticker) ==
  CASE ToUpperCase(ticker) = "NVDA" -> Frac(45, 100)
    [] ToUpperCase(ticker) = "AAPL" -> Frac(25, 100)
    [] OTHER -> DEFAULT_IV

calcIntrinsicValue(currentPrice, strikePrice, type) ==
  IF type = "call" THEN RMax(RSub(currentPrice, strikePrice), Zero)
  ELSE RMax(RSub(strikePrice, currentPrice), Zero)

\* Math.sqrt on the rationals whose root is rational (the clock values and
\* expiry dates of the model are chosen among those)
ISqrt(k) == CHOOSE r \in 0..k : r * r = k
Sqrt(x) == Frac(ISqrt(x.n), ISqrt(x.d))

calcTimeValue(currentPrice, impliedVol, daysToExpiry) ==
  IF RLe(daysToExpiry, Zero) THEN Zero
  ELSE RMul(RMul(currentPrice, impliedVol), Sqrt(RDiv(daysToExpiry, R(365))))

calcPremium(currentPrice, strikePrice, daysToExpiry, impliedVol, type) ==
  RAdd(calcIntrinsicValue(currentPrice, strikePrice, type),
       calcTimeValue(currentPrice, impliedVol, daysToExpiry))

\* new Date(expiryDate + "T16:00:00-05:00"), in hours; an expiry date is the
\* number of its day, and 16:00 at -05:00 is 21:00 UTC
ExpiryInstant(expiryDate) == 24 * expiryDate + 21

calcDaysToExpiry(expiryDate, clock) ==
  RMax(Zero, Frac(ExpiryInstant(expiryDate) - clock, 24))

\* ------------------------------------------------------------------------
\* Options engine
\* ------------------------------------------------------------------------
\* (mutation: the contract multiplier is forgotten)
TotalPremium_NoMultiplier(premiumPerShare, contracts) ==
  RMul(premiumPerShare, R(contracts))

\* premiumPerShare * 100 * contracts
TotalPremium(premiumPerShare, contracts) ==
  RMul(RMul(premiumPerShare, R(100)), R(contracts))

OptionTxn(type, underlying, strikePrice, expiryDate, contracts, premiumPerShare, totalAmount, pnl) ==
  [type |-> type, underlying |-> underlying, strikePrice |-> strikePrice,
   expiryDate |-> expiryDate, contracts |-> contracts,
   premiumPerShare |-> premiumPerShare, totalAmount |-> totalAmount,
   pnl |-> pnl]

\* OptionsEngine.buyOption(ticker, type, strikePrice, expiryDate, contracts)
BuyOption(rawTicker, type, strikePrice, expiryDate, contracts) ==
  LET underlying == ToUpperCase(rawTicker)
      dte == calcDaysToExpiry(expiryDate, now)
      op == [BaseOp EXCEPT !.op = "buyOption", !.ticker = underlying,
                           !.quantity = contracts, !.side = type,
                           !.strike = strikePrice, !.expiry = expiryDate]
  IN
  IF contracts <= 0 THEN Rejected(op)
  ELSE IF RLe(dte, Zero) THEN Rejected(op)
  ELSE \E quote \in StockQuotePrices(underlying) \cup {Undefined} :
    LET qop == [op EXCEPT !.price = quote]
    IN
    IF quote = Undefined THEN QuoteFailure(qop)
    ELSE
      LET iv == getImpliedVol(underlying)
          premiumPerShare == calcPremium(quote, R(strikePrice), dte, iv, type)
          totalPremium == TotalPremium(premiumPerShare, contracts)
          position ==
            [id |-> nextId, underlying |-> underlying, type |-> type,
             strikePrice |-> strikePrice, expiryDate |-> expiryDate,
             impliedVol |-> iv, contracts |-> contracts,
             premiumPaid |-> totalPremium,
             premiumPerShare |-> premiumPerShare,
             currentPremium |-> premiumPerShare,
             currentValue |-> totalPremium,
             unrealizedPnl |-> Zero, unrealizedPnlPercent |-> Zero,
             daysToExpiry |-> dte]
      IN
      IF RLt(cash, totalPremium) THEN Rejected(qop)
      ELSE
        /\ cash' = AdjustedCash(cash, RNeg(totalPremium))
        /\ opositions' = Append(opositions, position)
        /\ otransactions' = Append(otransactions,
             OptionTxn(IF type = "call" THEN "buy_call" ELSE "buy_put",
                       underlying, strikePrice, expiryDate, contracts,
                       premiumPerShare, totalPremium, Undefined))
        /\ nextId' = nextId + 1
        /\ lastOp' = NextOp([qop EXCEPT !.ok = TRUE, !.id = nextId])
        /\ monitor' = Interfere
        /\ UNCHANGED <<spotVars, futuresVars, now, ioVars, events, ledger>>

\* (mutation: a partial sell leaves the premium paid as it was)
PartiallySold_KeepsPremium(pos, sellContracts, costBasis) ==
  [pos EXCEPT !.contracts = pos.contracts - sellContracts]

\* the position after selling sellContracts of it at this cost basis
PartiallySold(pos, sellContracts, costBasis) ==
  [pos EXCEPT !.contracts = pos.contracts - sellContracts,
              !.premiumPaid = RSub(pos.premiumPaid, costBasis)]

\* OptionsEngine.sellOption(positionId, contracts?)
SellOption(positionId, contracts) ==
  LET i == PosIndex(opositions, positionId)
      op == [BaseOp EXCEPT !.op = "sellOption", !.id = positionId,
                           !.quantity = contracts]
  IN
  IF i = 0 THEN Rejected(op)
  ELSE
    LET pos == opositions[i]
        sellContracts == IF contracts = UndefinedArg THEN pos.contracts
                         ELSE contracts
        sop == [op EXCEPT !.quantity = sellContracts,
                          !.ticker = pos.underlying, !.side = pos.type,
                          !.strike = pos.strikePrice,
                          !.expiry = pos.expiryDate]
    IN
    IF sellContracts <= 0 THEN Rejected(sop)
    ELSE IF ExceedsHeld(sellContracts, pos.contracts) THEN Rejected(sop)
    ELSE \E quote \in StockQuotePrices(pos.underlying) \cup {Undefined} :
      IF quote = Undefined THEN QuoteFailure(sop)
      ELSE
        LET dte == calcDaysToExpiry(pos.expiryDate, now)
            currentPremium == calcPremium(quote, R(pos.strikePrice), dte,
                                          pos.impliedVol, pos.type)
            proceeds == TotalPremium(currentPremium, sellContracts)
            costBasis == RMul(RDiv(pos.premiumPaid, R(pos.contracts)),
                              R(sellContracts))
            pnl == RSub(proceeds, costBasis)
            remaining == pos.contracts - sellContracts
        IN
        /\ cash' = AdjustedCash(cash, proceeds)
        /\ opositions' =
             IF remaining = 0 THEN WithoutPosition(opositions, positionId)
             ELSE [opositions EXCEPT
                     ![i] = PartiallySold(pos, sellContracts, costBasis)]
        /\ otransactions' = Append(otransactions,
             OptionTxn(IF pos.type = "call" THEN "sell_call" ELSE "sell_put",
                       pos.underlying, pos.strikePrice, pos.expiryDate,
                       sellContracts, currentPremium, proceeds, pnl))
        /\ lastOp' = NextOp([sop EXCEPT !.ok = TRUE, !.price = quote,
                                        !.pnl = pnl, !.credit = proceeds])
        /\ monitor' = Interfere
        /\ UNCHANGED <<spotVars, futuresVars, now, ioVars, nextId, events, ledger>>

\* OptionsEngine.getQuote(ticker, type, strikePrice, expiryDate): the quote
\* fetch is not guarded, so its failure leaves the call by an exception
GetQuote(rawTicker, type, strikePrice, expiryDate) ==
  LET underlying == ToUpperCase(rawTicker)
      op == [BaseOp EXCEPT !.op = "getQuote", !.ticker = underlying,
                           !.side = type, !.strike = strikePrice,
                           !.expiry = expiryDate, !.raw = rawTicker]
  IN
  \E quote \in StockQuotePrices(underlying) \cup {Undefined} :
    /\ lastOp' =
         IF quote = Undefined
         THEN NextOp([op EXCEPT !.raised = TRUE])
         ELSE NextOp([op EXCEPT !.ok = TRUE, !.price = quote,
                                !.credit =
                                  calcPremium(quote, R(strikePrice),
                                    calcDaysToExpiry(expiryDate, now),
                                    getImpliedVol(underlying), type)])
    /\ monitor' = Interfere
    /\ UNCHANGED <<cash, spotVars, futuresVars, optionsVars, now, ioVars, nextId,
                   events, ledger>>

\* (mutation: every position counts as expired)
IsExpired_Always(pos, clock) == TRUE

\* settleExpiredOptions' filter: now >= new Date(expiryDate + "T16:00:00-05:00")
IsExpired(pos, clock) == clock >= ExpiryInstant(pos.expiryDate)

ExpiredPositions == SelectSeq(opositions, LAMBDA p : IsExpired(p, now))

\* (mutation: the contract multiplier is forgotten at settlement)
SettlementValue_PerShare(intrinsic, contracts) == RMul(intrinsic, R(contracts))

\* intrinsic * 100 * pos.contracts
SettlementValue(intrinsic, contracts) ==
  RMul(RMul(intrinsic, R(100)), R(contracts))

\* the options.expired event broadcast for a settled position
ExpiredEvent(pos, isITM, settlementValue, pnl) ==
  [event |-> "options.expired", id |-> pos.id, underlying |-> pos.underlying,
   type |-> pos.type, strikePrice |-> pos.strikePrice,
   contracts |-> pos.contracts, isITM |-> isITM,
   settlementValue |-> settlementValue, pnl |-> pnl]

\* (mutation: a position whose quote failed is dropped all the same)
AfterSettleSkip_Dropped(st, pos) ==
  [st EXCEPT !.positions = WithoutPosition(st.positions, pos.id)]

\* the catch branch of the settlement loop: `continue`, the position stays
AfterSettleSkip(st, pos) == st

RECURSIVE SettleLoop(_, _, _, _)
\* the loop over the expired positions; st holds cash, data.positions,
\* data.transactions and the broadcast events so far, quotes the outcome of
\* each position's fetchUnderlyingPrice
SettleLoop(st, expired, quotes, broadcast) ==
  IF expired = <<>> THEN st
  ELSE
    LET pos == Head(expired)
        currentPrice == quotes[pos.id]
    IN
    IF currentPrice = Undefined
    THEN SettleLoop(AfterSettleSkip(st, pos), Tail(expired), quotes, broadcast)
    ELSE
      LET intrinsic == calcIntrinsicValue(currentPrice, R(pos.strikePrice),
                                          pos.type)
          settlementValue == SettlementValue(intrinsic, pos.contracts)
          isITM == RLt(Zero, intrinsic)
          pnl == RSub(settlementValue, pos.premiumPaid)
      IN SettleLoop(
           [cash |-> IF isITM THEN AdjustedCash(st.cash, settlementValue)
                     ELSE st.cash,
            transactions |-> Append(st.transactions,
              OptionTxn(IF isITM THEN "expire_itm" ELSE "expire_otm",
                        pos.underlying, pos.strikePrice, pos.expiryDate,
                        pos.contracts, IF isITM THEN intrinsic ELSE Zero,
                        settlementValue, pnl)),
            positions |-> WithoutPosition(st.positions, pos.id),
            events |-> IF broadcast
                       THEN Append(st.events,
                              ExpiredEvent(pos, isITM, settlementValue, pnl))
                       ELSE st.events],
           Tail(expired), quotes, broadcast)

\* the outcomes of the quote fetches of one settlement run, per position
SettleQuotes(expired) ==
  LET ids == PositionIds(expired)
      all == UNION {StockQuotePrices(expired[i].underlying) :
                      i \in 1..Len(expired)} \cup {Undefined}
  IN {f \in [ids -> all] :
        \A i \in 1..Len(expired) :
          f[expired[i].id] \in
            StockQuotePrices(expired[i].underlying) \cup {Undefined}}

\* one run of settleExpiredOptions whose quote fetches end as in quotes; the
\* sequence number of lastOp stops counting at MaxOptOps
SettleWith(broadcast, quotes) ==
  \E st \in {SettleLoop([cash |-> cash, transactions |-> otransactions,
                         positions |-> opositions, events |-> events],
                        ExpiredPositions, quotes, broadcast)} :
    LET op == NextOp([BaseOp EXCEPT !.op = "settleExpiredOptions",
                                    !.ok = TRUE, !.quotes = quotes,
                                    !.broadcast = broadcast])
    IN
    /\ cash' = st.cash
    /\ opositions' = st.positions
    /\ otransactions' = st.transactions
    /\ events' = st.events
    /\ lastOp' = IF lastOp.seq < MaxOptOps THEN op
                 ELSE [op EXCEPT !.seq = lastOp.seq]
    /\ monitor' = Interfere
    /\ UNCHANGED <<spotVars, futuresVars, now, ioVars, nextId, ledger>>

\* OptionsEngine.settleExpiredOptions(broadcast?), run by the hourly timer
SettleExpiredOptions(broadcast) ==
  \E quotes \in SettleQuotes(ExpiredPositions) : SettleWith(broadcast, quotes)

\* a run in which the quote for position id is fetched
SettleQuoted(id) ==
  \E quotes \in {q \in SettleQuotes(ExpiredPositions) :
                   id \in DOMAIN q /\ q[id] # Undefined} :
    SettleWith(FALSE, quotes)

\* instants the wall clock is looked at: after the first expiry date of the
\* model, and at the expiry instant of the second
ClockValues == {26301, 35061}

\* time passes
AdvanceClock(t) ==
  /\ t > now
  /\ now' = t
  /\ UNCHANGED <<cash, spotVars, futuresVars, optionsVars, nextId, monitor,
                 events, lastOp, ledger, ioVars>>

\* ------------------------------------------------------------------------
\* Stores (PortfolioStore, FuturesStore: the same load and save) over files
\* ------------------------------------------------------------------------
\* directories handed to the store constructor
StoragePaths == {"a", "b"}

\* heap address of the module-level DEFAULT_DATA object
DefaultRef == 1

DEFAULT_DATA == [cash |-> 100000, holdings |-> {}, transactionHistory |-> <<>>]

\* this.storagePath, and the sibling `${storagePath}.${randomUUID()}.tmp`
TargetPath(path) == <<path, 0>>

\* (mutation: the data is written straight into the target file)
TmpPath_InPlace(path, uuid) == TargetPath(path)

TmpPath(path, uuid) == <<path, uuid>>

\* JSON.stringify(data, null, 2): the text, in the pieces writeFile may put
\* on disk one after the other
Stringify(data) ==
  << <<"{cash", data.cash>>,
     <<"holdings", data.holdings, "transactionHistory",
       data.transactionHistory, "}">> >>

\* JSON.parse accepts the text (it throws on a truncated text)
Parses(text) ==
  /\ Len(text) = 2
  /\ Len(text[1]) = 2
  /\ Len(text[2]) = 5
  /\ text[1][1] = "{cash"
  /\ text[2][5] = "}"

JsonParse(text) ==
  [cash |-> text[1][2], holdings |-> text[2][2],
   transactionHistory |-> text[2][4]]

\* store.save(data) up to its first await (fs.mkdir is under way)
StartSave(path, ref, data) ==
  Append(saves, [path |-> path, ref |-> ref, passed |-> data, pc |-> "mkdir",
                 text |-> <<>>, written |-> 0])

\* store.load() up to the answer of fs.readFile; ENOENT starts
\* save(DEFAULT_DATA)
LoadRead(path) ==
  /\ stores[path].pc = "new"
  /\ IF TargetPath(path) \notin DOMAIN disk
     THEN /\ saves' = StartSave(path, DefaultRef, heap[DefaultRef])
          /\ stores' = [stores EXCEPT ![path] =
                          [pc |-> "firstRun", ref |-> 0,
                           save |-> Len(saves) + 1]]
          /\ UNCHANGED heap
     ELSE IF Parses(disk[TargetPath(path)])
     THEN /\ heap' = Append(heap, JsonParse(disk[TargetPath(path)]))
          /\ stores' = [stores EXCEPT ![path] =
                          [pc |-> "ready", ref |-> Len(heap) + 1, save |-> 0]]
          /\ UNCHANGED saves
     ELSE /\ stores' = [stores EXCEPT ![path].pc = "failed"]
          /\ UNCHANGED <<heap, saves>>
  /\ UNCHANGED <<disk, engineVars, services, quoteVars>>

\* (mutation: load hands out the DEFAULT_DATA object itself)
ClonedRef_Alias(h) == DefaultRef

\* structuredClone(DEFAULT_DATA) is a new object
ClonedRef(h) == Len(h) + 1

\* the first-run load returns once its save has finished
LoadReturn(path) ==
  /\ stores[path].pc = "firstRun"
  /\ saves[stores[path].save].pc = "done"
  /\ heap' = Append(heap, heap[DefaultRef])
  /\ stores' = [stores EXCEPT ![path] =
                  [pc |-> "ready", ref |-> ClonedRef(heap), save |-> 0]]
  /\ UNCHANGED <<disk, saves, engineVars, services, quoteVars>>

\* Portfolio.adjustCash(delta) on the data loaded from the store at path
StoreAdjustCash(path, delta) ==
  LET ref == stores[path].ref
      data == [heap[ref] EXCEPT
                 !.cash = IF @ + delta < 0 THEN 0 ELSE @ + delta]
  IN
  /\ stores[path].pc = "ready"
  /\ heap' = [heap EXCEPT ![ref] = data]
  /\ saves' = StartSave(path, ref, data)
  /\ UNCHANGED <<disk, stores, engineVars, services, quoteVars>>

\* Portfolio.buyStock once the price is known: cash, holdings and history
\* change, then the data is saved
StoreBuyStock(path, cost) ==
  LET ref == stores[path].ref
      data == [heap[ref] EXCEPT
                 !.cash = @ - cost,
                 !.holdings = @ \cup {"BTC"},
                 !.transactionHistory = Append(@, cost)]
  IN
  /\ stores[path].pc = "ready"
  /\ heap[ref].cash >= cost
  /\ heap' = [heap EXCEPT ![ref] = data]
  /\ saves' = StartSave(path, ref, data)
  /\ UNCHANGED <<disk, stores, engineVars, services, quoteVars>>

\* fs.mkdir has answered: the data is serialized as it is now and
\* fs.writeFile is called on the temporary path
SaveMkdir(i) ==
  /\ saves[i].pc = "mkdir"
  /\ saves' = [saves EXCEPT ![i].pc = "open",
                            ![i].text = Stringify(heap[saves[i].ref])]
  /\ UNCHANGED <<disk, heap, stores, engineVars, services, quoteVars>>

\* writeFile opens the file: it exists and is empty
SaveOpen(i) ==
  /\ saves[i].pc = "open"
  /\ disk' = [f \in DOMAIN disk \cup {TmpPath(saves[i].path, i)} |->
                IF f = TmpPath(saves[i].path, i) THEN <<>> ELSE disk[f]]
  /\ saves' = [saves EXCEPT ![i].pc = "write"]
  /\ UNCHANGED <<heap, stores, engineVars, services, quoteVars>>

\* writeFile writes the next piece of the text; after the last one
\* fs.rename is called
SaveWrite(i) ==
  LET f == TmpPath(saves[i].path, i)
      k == saves[i].written + 1
  IN
  /\ saves[i].pc = "write"
  /\ disk' = [disk EXCEPT ![f] = IF k <= Len(@)
                                  THEN [@ EXCEPT ![k] = saves[i].text[k]]
                                  ELSE Append(@, saves[i].text[k])]
  /\ saves' = [saves EXCEPT ![i].written = k,
                            ![i].pc = IF k = Len(saves[i].text) THEN "rename"
                                      ELSE "write"]
  /\ UNCHANGED <<heap, stores, engineVars, services, quoteVars>>

\* fs.rename(tmpPath, storagePath) replaces the target in one step
SaveRename(i) ==
  LET f == TmpPath(saves[i].path, i)
      t == TargetPath(saves[i].path)
  IN
  /\ saves[i].pc = "rename"
  /\ disk' = [g \in (DOMAIN disk \ {f}) \cup {t} |->
                IF g = t THEN disk[f] ELSE disk[g]]
  /\ saves' = [saves EXCEPT ![i].pc = "done"]
  /\ UNCHANGED <<heap, stores, engineVars, services, quoteVars>>

\* the process stops where it is and a new one starts: the files stay, the
\* calls under way never resume, the memory is that of a fresh module
ProcessRestart ==
  /\ \E path \in StoragePaths : stores[path].pc # "new"
  /\ saves' = [i \in 1..Len(saves) |->
                 IF saves[i].pc = "done" THEN saves[i]
                 ELSE [saves[i] EXCEPT !.pc = "dead"]]
  /\ heap' = <<DEFAULT_DATA>>
  /\ stores' = [path \in StoragePaths |->
                  [pc |-> "new", ref |-> 0, save |-> 0]]
  /\ UNCHANGED <<disk, engineVars, services, quoteVars>>

\* ------------------------------------------------------------------------
\* Service accessors (getPortfolioService, getFuturesService,
\* getOptionsService: the same code around a module-level servicePromise)
\* ------------------------------------------------------------------------
Services == {"portfolio", "futures", "options"}

\* (mutation: the promise is not kept in servicePromise)
Memoized_Never(servicePromise, promise) == servicePromise

\* servicePromise = (async () => {...})()
Memoized(servicePromise, promise) == promise

\* a call of the accessor (servicePromise is 0 while it is null): the first
\* one starts the initialisation, which runs up to the readFile of
\* store.load(); every call returns a promise
GetService(svc) ==
  LET s == services[svc]
      fresh == Len(s.promises) + 1
  IN
  /\ services' = [services EXCEPT ![svc] =
       IF s.servicePromise = 0
       THEN [servicePromise |-> Memoized(s.servicePromise, fresh),
             promises |-> Append(s.promises,
                                 [state |-> "pending", instance |-> 0]),
             calls |-> Append(s.calls,
                              [promise |-> fresh, early |-> FALSE,
                               got |-> 0]),
             loads |-> s.loads + 1]
       ELSE [s EXCEPT !.calls = Append(@,
               [promise |-> s.servicePromise,
                early |-> s.promises[s.servicePromise].state = "pending",
                got |-> 0])]]
  /\ UNCHANGED <<storeVars, engineVars, quoteVars>>

\* the initialisation ends: the async function returns the new service
\* object, or the load has thrown
InitSettles(svc, k, ok) ==
  /\ k \in 1..Len(services[svc].promises)
  /\ services[svc].promises[k].state = "pending"
  /\ services' = [services EXCEPT ![svc].promises[k] =
       IF ok THEN [state |-> "resolved", instance |-> k]
       ELSE [state |-> "rejected", instance |-> 0]]
  /\ UNCHANGED <<storeVars, engineVars, quoteVars>>

\* a caller's await of the returned promise resumes: with the instance, or
\* (-1) with the rejection
AwaitService(svc, c) ==
  LET s == services[svc]
  IN
  /\ c \in 1..Len(s.calls)
  /\ s.calls[c].got = 0
  /\ s.promises[s.calls[c].promise].state # "pending"
  /\ services' = [services EXCEPT ![svc].calls[c].got =
       IF s.promises[s.calls[c].promise].state = "resolved"
       THEN s.promises[s.calls[c].promise].instance ELSE -1]
  /\ UNCHANGED <<storeVars, engineVars, quoteVars>>

\* ------------------------------------------------------------------------
\* Quote providers (MarketData for Binance, StockMarketData for Yahoo)
\* ------------------------------------------------------------------------
Providers == {"binance", "yahoo"}

CACHE_TTL_MS == 30000

\* what the exchange answers for a symbol: a price, or Undefined when the
\* response is not ok
ProviderQuotes(provider, key) ==
  IF provider = "binance" THEN QuoteOutcomes(key)
  ELSE StockQuotePrices(key) \cup {Undefined}

\* cached && Date.now() - cached.timestamp < CACHE_TTL_MS
Cached(provider, key) ==
  /\ key \in DOMAIN qcache[provider]
  /\ dateNow - qcache[provider][key].timestamp < CACHE_TTL_MS

\* the cache after this.cache.set(key, {price, timestamp}) for each of the
\* keys, with the price found for it
CacheSetAll(cache, keys, prices, timestamp) ==
  [k \in DOMAIN cache \cup keys |->
     IF k \in keys THEN [price |-> prices[k], timestamp |-> timestamp]
     ELSE cache[k]]

NoQuote == [kind |-> "none", provider |-> "", symbols |-> <<>>,
            key |-> "", price |-> Undefined, threw |-> FALSE,
            outcomes |-> EmptyMap, results |-> <<>>, seq |-> 0]

\* fetchQuote(symbol) up to its return from the cache or to its fetch
FetchQuote(provider, symbol) ==
  LET key == ToUpperCase(symbol)
  IN
  /\ IF Cached(provider, key)
     THEN /\ lastQuote' = [NoQuote EXCEPT
                             !.kind = "cached", !.provider = provider,
                             !.symbols = <<symbol>>, !.key = key,
                             !.price = qcache[provider][key].price,
                             !.seq = lastQuote.seq + 1]
          /\ UNCHANGED pending
     ELSE /\ lastQuote' = [NoQuote EXCEPT
                             !.kind = "fetch", !.provider = provider,
                             !.symbols = <<symbol>>, !.key = key,
                             !.seq = lastQuote.seq + 1]
          /\ pending' = Append(pending, [provider |-> provider, key |-> key,
                                         state |-> "fetching"])
  /\ UNCHANGED <<qcache, dateNow, fetched, storeVars, engineVars,
                 services>>

\* (mutation: a failed fetch caches price 0)
AfterFailedFetch_Cached(cache, key) ==
  CacheSetAll(cache, {key}, key :> Zero, dateNow)

\* the throw of fetchQuote leaves the cache alone
AfterFailedFetch(cache, key) == cache

\* the answer of the exchange arrives for the i-th fetch under way
FetchAnswer(i, quote) ==
  LET provider == pending[i].provider
      key == pending[i].key
  IN
  /\ pending[i].state = "fetching"
  /\ pending' = [pending EXCEPT ![i].state = "done"]
  /\ IF quote = Undefined
     THEN /\ qcache' = [qcache EXCEPT
                          ![provider] = AfterFailedFetch(@, key)]
          /\ lastQuote' = [NoQuote EXCEPT
                             !.kind = "answer", !.provider = provider,
                             !.key = key, !.threw = TRUE,
                             !.seq = lastQuote.seq + 1]
          /\ UNCHANGED fetched
     ELSE /\ qcache' = [qcache EXCEPT
                          ![provider] = CacheSetAll(@, {key}, key :> quote, dateNow)]
          /\ fetched' = [fetched EXCEPT
                           ![provider] = CacheSetAll(@, {key}, key :> quote, dateNow)]
          /\ lastQuote' = [NoQuote EXCEPT
                             !.kind = "answer", !.provider = provider,
                             !.key = key, !.price = quote,
                             !.seq = lastQuote.seq + 1]
  /\ UNCHANGED <<dateNow, storeVars, engineVars, services>>

\* clearCache()
ClearCache(provider) ==
  /\ qcache' = [qcache EXCEPT ![provider] = EmptyMap]
  /\ fetched' = [fetched EXCEPT ![provider] = EmptyMap]
  /\ lastQuote' = [NoQuote EXCEPT !.kind = "clearCache",
                                  !.provider = provider,
                                  !.seq = lastQuote.seq + 1]
  /\ UNCHANGED <<dateNow, pending, storeVars, engineVars, services>>

\* Date.now() moves on
Elapse(ms) ==
  /\ dateNow' = dateNow + ms
  /\ UNCHANGED <<qcache, pending, fetched, lastQuote, storeVars, engineVars,
                 services>>

\* fetchQuotes(symbols): the cached symbols first, then the fetched ones.
\* MarketData sends one request for all symbols to fetch and throws when the
\* response is not ok; StockMarketData calls fetchQuote per symbol and turns
\* a throw into price 0
FetchQuotes(provider, symbols) ==
  LET keys == [i \in 1..Len(symbols) |-> ToUpperCase(symbols[i])]
      results == [i \in 1..Len(SelectSeq(keys, LAMBDA k : Cached(provider, k))) |->
                    LET k == SelectSeq(keys, LAMBDA x : Cached(provider, x))[i]
                    IN [symbol |-> k, price |-> qcache[provider][k].price]]
      toFetch == SelectSeq(keys, LAMBDA k : ~Cached(provider, k))
      fetchKeys == {toFetch[i] : i \in 1..Len(toFetch)}
      answers == UNION {ProviderQuotes(provider, k) : k \in fetchKeys}
  IN
  /\ UNCHANGED <<dateNow, pending, storeVars, engineVars, services>>
  /\ \E outcomes \in {f \in [fetchKeys -> answers] :
          \A k \in fetchKeys : f[k] \in ProviderQuotes(provider, k)} :
    LET ok == {k \in fetchKeys : outcomes[k] # Undefined}
        op == [NoQuote EXCEPT !.kind = "fetchQuotes", !.provider = provider,
                              !.symbols = symbols, !.outcomes = outcomes,
                              !.seq = lastQuote.seq + 1]
    IN
    IF provider = "binance" /\ ok # fetchKeys
    THEN /\ lastQuote' = [op EXCEPT !.threw = TRUE]
         /\ UNCHANGED <<qcache, fetched>>
    ELSE /\ qcache' = [qcache EXCEPT
                         ![provider] = CacheSetAll(@, ok, outcomes, dateNow)]
         /\ fetched' = [fetched EXCEPT
                          ![provider] = CacheSetAll(@, ok, outcomes, dateNow)]
         /\ lastQuote' = [op EXCEPT !.results = results \o
              [i \in 1..Len(toFetch) |->
                 [symbol |-> toFetch[i],
                  price |-> IF outcomes[toFetch[i]] = Undefined THEN Zero
                            ELSE outcomes[toFetch[i]]]]]

\* ------------------------------------------------------------------------
\* Enriched snapshot (getEnrichedSnapshot) and the account summaries
\* ------------------------------------------------------------------------
RECURSIVE RSumOver(_, _)
\* the sum of the numbers f[x], x in S (a reduce((sum, x) => sum + ..., 0))
RSumOver(f, S) ==
  IF S = {} THEN Zero
  ELSE LET x == CHOOSE y \in S : TRUE
       IN RAdd(f[x], RSumOver(f, S \ {x}))

\* one outcome per symbol of a fetch over these symbols: a price, or
\* Undefined where the fetch of that symbol fails
SymbolOutcomes(symbols, assetType) ==
  {f \in [symbols -> UNION {SpotQuoteOutcomes(s, assetType) : s \in symbols}] :
     \A s \in symbols : f[s] \in SpotQuoteOutcomes(s, assetType)}

\* what a bulk fetchQuotes call of a provider with nothing cached hands
\* back: MarketData throws (Undefined here) when its one request fails,
\* StockMarketData answers price 0 for a symbol whose fetch threw
BulkResults(provider, outcomes) ==
  IF provider = "binance"
  THEN IF \E s \in DOMAIN outcomes : outcomes[s] = Undefined THEN Undefined
       ELSE outcomes
  ELSE [s \in DOMAIN outcomes |->
          IF outcomes[s] = Undefined THEN Zero ELSE outcomes[s]]

\* q.symbol.endsWith("USDT") ? q.symbol.slice(0, -4) : q.symbol
OriginalTicker(symbol) ==
  CASE symbol = "BTCUSDT" -> "BTC"
    [] symbol = "ETHUSDT" -> "ETH"
    [] OTHER -> symbol

\* currentPrices[key] after the two bulk fetches (Undefined: no entry); the
\* stock results are written last
CurrentPrices(cryptoResults, stockResults) ==
  [key \in DOMAIN holdings |->
     IF key \in DOMAIN stockResults THEN stockResults[key]
     ELSE IF cryptoResults = Undefined THEN Undefined
     ELSE IF \E s \in DOMAIN cryptoResults : key \in {s, OriginalTicker(s)}
     THEN cryptoResults[CHOOSE s \in DOMAIN cryptoResults :
                          key \in {s, OriginalTicker(s)}]
     ELSE Undefined]

\* currentPrices[key] ?? holding.averagePrice
PriceOrAverage(currentPrice, holding) ==
  IF currentPrice = Undefined THEN holding.averagePrice ELSE currentPrice

\* Portfolio.getPortfolioValue(currentPrices).spotEquity, on the ledger's
\* data = {cash, holdings}
getPortfolioValue(data, currentPrices) ==
  RSumOver([key \in DOMAIN data.holdings |->
              RMul(R(data.holdings[key].quantity),
                   PriceOrAverage(currentPrices[key], data.holdings[key]))],
           DOMAIN data.holdings)

\* the spotHoldings rows of the snapshot
SpotHoldings(data, currentPrices) ==
  [key \in DOMAIN data.holdings |->
     LET holding == data.holdings[key]
         currentPrice == PriceOrAverage(currentPrices[key], holding)
         costBasis == RMul(R(holding.quantity), holding.averagePrice)
         marketValue == RMul(R(holding.quantity), currentPrice)
     IN [ticker |-> key, quantity |-> holding.quantity,
         averagePrice |-> holding.averagePrice,
         currentPrice |-> currentPrice, marketValue |-> marketValue,
         costBasis |-> costBasis, pnl |-> RSub(marketValue, costBasis)]]

\* the option position after OptionsEngine.getPositions priced it (price is
\* Undefined where the fetch threw: the position is skipped)
RefreshedOption(pos, price) ==
  IF price = Undefined THEN pos
  ELSE
    LET dte == calcDaysToExpiry(pos.expiryDate, now)
        premium == calcPremium(price, R(pos.strikePrice), dte, pos.impliedVol,
                               pos.type)
        currentValue == TotalPremium(premium, pos.contracts)
        upnl == RSub(currentValue, pos.premiumPaid)
    IN [pos EXCEPT !.currentPremium = premium,
                   !.currentValue = currentValue,
                   !.unrealizedPnl = upnl,
                   !.unrealizedPnlPercent =
                      IF RLt(Zero, pos.premiumPaid)
                      THEN RMul(RDiv(upnl, pos.premiumPaid), R(100))
                      ELSE Zero,
                   !.daysToExpiry = dte]

\* the snapshot's figures from the prices found and the positions the two
\* engines hand back; futuresMarginUsed and futuresUnrealizedPnl are
\* FuturesEngine.getAccount()
EnrichedSnapshot(data, currentPrices, positions, options) ==
  LET spotEquity == getPortfolioValue(data, currentPrices)
      totalMarginUsed ==
        RSumOver([i \in DOMAIN positions |-> positions[i].initialMargin],
                 DOMAIN positions)
      totalUnrealizedPnl ==
        RSumOver([i \in DOMAIN positions |-> positions[i].unrealizedPnl],
                 DOMAIN positions)
      optionsValue ==
        RSumOver([i \in DOMAIN options |-> options[i].currentValue],
                 DOMAIN options)
  IN [cash |-> data.cash,
      spotHoldings |-> SpotHoldings(data, currentPrices),
      spotEquity |-> spotEquity,
      futuresMarginUsed |-> totalMarginUsed,
      futuresUnrealizedPnl |-> totalUnrealizedPnl,
      optionsValue |-> optionsValue,
      totalEquity |->
        RAdd(RAdd(RAdd(RAdd(data.cash, spotEquity), totalMarginUsed),
                  totalUnrealizedPnl), optionsValue)]

\* getEnrichedSnapshot(portfolio, marketData, stockMarketData): the bulk
\* fetches for the spot holdings, then both engines' getPositions with their
\* own fetches (data.dailySnapshots is not part of the model's ledger)
GetEnrichedSnapshot ==
  LET keys == DOMAIN holdings
      cryptoTickers == {t \in keys : getTickerType(t) = "crypto"}
      stockTickers == {t \in keys : getTickerType(t) = "stock"}
      underlyings == {opositions[i].underlying : i \in DOMAIN opositions}
  IN
  \E cq \in SymbolOutcomes({MarkSymbol(t) : t \in cryptoTickers}, "crypto"),
     sq \in SymbolOutcomes(stockTickers, "stock"),
     prices \in FetchedPrices(TickersOf(fpositions)),
     oprices \in SymbolOutcomes(underlyings, "stock") :
    LET currentPrices == CurrentPrices(BulkResults("binance", cq),
                                       BulkResults("yahoo", sq))
        positions == [i \in DOMAIN fpositions |->
                        LET pos == fpositions[i]
                        IN Refreshed(pos, IF prices[pos.ticker] = Undefined
                                          THEN pos.markPrice
                                          ELSE prices[pos.ticker])]
        options == [i \in DOMAIN opositions |->
                      RefreshedOption(opositions[i],
                                      oprices[opositions[i].underlying])]
    IN
    /\ fpositions' = positions
    /\ opositions' = options
    /\ lastOp' = NextOp([BaseOp EXCEPT
                           !.op = "getEnrichedSnapshot", !.ok = TRUE,
                           !.quotes = cq @@ sq,
                           !.snapshot =
                             EnrichedSnapshot([cash |-> cash,
                                               holdings |-> holdings],
                                              currentPrices, positions,
                                              options)])
    /\ monitor' = Interfere
    /\ UNCHANGED <<cash, spotVars, leverageSettings, ftransactions,
                   otransactions, now, ioVars, nextId, events, ledger>>

\* ------------------------------------------------------------------------
\* Engine calls that overlap at their awaits
\* ------------------------------------------------------------------------
\* the locals of one call of an async engine method; pc names the await the
\* call is suspended in ("done" once it has returned)
BaseCall ==
  [op |-> "", id |-> 0, pc |-> "done", ok |-> FALSE, quantity |-> 0,
   price |-> Undefined, pnl |-> Undefined, marginReleased |-> Zero,
   cashReturn |-> Zero, costBasis |-> Zero, removed |-> FALSE,
   logged |-> FALSE, paidQty |-> 0, expired |-> <<>>, idx |-> 0,
   broadcast |-> FALSE, ticker |-> "", assetType |-> "",
   transaction |-> EmptyMap, side |-> "", leverage |-> 0, inCash |-> FALSE]

\* portfolio.json after a save of the ledger's data (paid: the calls whose
\* change of the balance the file reflects)
SavedPortfolio ==
  [files EXCEPT !.portfolio =
     [cash |-> cash, holdings |-> holdings,
      transactionHistory |-> transactionHistory, tickerTypes |-> tickerTypes,
      paid |-> {k \in 1..Len(inflight) : inflight[k].inCash}]]

\* the futures file after a save of the engine's data
SavedFutures ==
  [files EXCEPT !.futures = [positions |-> fpositions,
                             transactions |-> ftransactions]]

\* the options file after a save of the engine's data
SavedOptions ==
  [files EXCEPT !.options = [positions |-> opositions,
                             transactions |-> otransactions]]

\* the object a call's `pos` refers to: the element of data.positions while
\* it is there, the removed object afterwards
PosObject(positions, id) ==
  IF PosIndex(positions, id) # 0 THEN positions[PosIndex(positions, id)]
  ELSE detached[id]

\* an assignment to the fields of `pos`, seen through data.positions ...
PositionsWith(positions, obj) ==
  [i \in 1..Len(positions) |->
     IF positions[i].id = obj.id THEN obj ELSE positions[i]]

\* ... or through the references to the removed object
DetachedWith(positions, obj) ==
  IF PosIndex(positions, obj.id) # 0 THEN detached
  ELSE (obj.id :> obj) @@ detached

\* the removed objects after data.positions lost the position with this id
DetachedWithout(positions, id) ==
  IF PosIndex(positions, id) # 0
  THEN (id :> PosObject(positions, id)) @@ detached
  ELSE detached

\* closePosition up to `await this.fetchMarkPrice(pos.ticker)`
CloseBegin(positionId, quantity) ==
  LET i == PosIndex(fpositions, positionId)
      op == [BaseOp EXCEPT !.op = "closePosition", !.id = positionId,
                           !.quantity = quantity]
  IN
  IF i = 0 THEN Rejected(op)
  ELSE
    LET pos == fpositions[i]
        closeQty == IF quantity = UndefinedArg THEN pos.quantity ELSE quantity
        cop == [op EXCEPT !.quantity = closeQty, !.ticker = pos.ticker,
                          !.side = pos.side, !.leverage = pos.leverage]
    IN
    IF closeQty <= 0 THEN Rejected(cop)
    ELSE IF ExceedsHeld(closeQty, pos.quantity) THEN Rejected(cop)
    ELSE
      /\ inflight' = Append(inflight,
           [BaseCall EXCEPT !.op = "closePosition", !.id = positionId,
                            !.pc = "quote", !.quantity = closeQty])
      /\ UNCHANGED <<cash, spotVars, futuresVars, optionsVars, now, nextId,
                     monitor, events, lastOp, ledger, storeVars, services,
                     quoteVars, timers, detached, files>>

\* the quote arrives: pnl and marginReleased are computed from `pos` as it
\* is now, and adjustCash changes the balance before it awaits its save
CloseQuoted(k) ==
  LET call == inflight[k]
      pos == PosObject(fpositions, call.id)
  IN
  /\ call.op = "closePosition" /\ call.pc = "quote"
  /\ \E quote \in QuoteOutcomes(MarkSymbol(pos.ticker)) :
       IF quote = Undefined
       THEN /\ inflight' = [inflight EXCEPT ![k] = [call EXCEPT !.pc = "done"]]
            /\ UNCHANGED <<cash, ledger>>
       ELSE
         LET pnl == calcUnrealizedPnl(pos.side, call.quantity, pos.entryPrice,
                                      quote)
             marginReleased == MarginReleased(pos, call.quantity)
             cashReturn == CloseCashReturn(marginReleased, pnl)
         IN
         /\ cash' = AdjustedCash(cash, cashReturn)
         /\ ledger' = [ledger EXCEPT ![call.id].credited =
                         RAdd(@, RSub(cash', cash))]
         /\ inflight' = [inflight EXCEPT ![k] =
              [call EXCEPT !.pc = "ledger", !.price = quote, !.pnl = pnl,
                           !.marginReleased = marginReleased,
                           !.cashReturn = cashReturn, !.inCash = TRUE]]
  /\ UNCHANGED <<spotVars, futuresVars, optionsVars, now, nextId, monitor,
                 events, lastOp, storeVars, services, quoteVars, timers, detached, files>>

\* the ledger's save is done: the position is removed or reduced, the
\* transaction is pushed and the engine's save starts
CloseSettled(k) ==
  LET call == inflight[k]
      pos == PosObject(fpositions, call.id)
      remaining == pos.quantity - call.quantity
  IN
  /\ call.op = "closePosition" /\ call.pc = "ledger"
  /\ IF remaining = 0
     THEN /\ fpositions' = WithoutPosition(fpositions, call.id)
          /\ detached' = DetachedWithout(fpositions, call.id)
     ELSE LET obj == PartiallyClosed(pos, call.quantity, call.marginReleased,
                                     call.pnl)
          IN /\ fpositions' = PositionsWith(fpositions, obj)
             /\ detached' = DetachedWith(fpositions, obj)
  /\ ftransactions' = Append(ftransactions,
       FuturesTxn(IF pos.side = "long" THEN "close_long" ELSE "close_short",
                  pos.ticker, call.quantity, call.price, 0, call.pnl))
  /\ inflight' = [inflight EXCEPT ![k] =
       [call EXCEPT !.pc = "save", !.logged = TRUE,
                    !.removed = (remaining = 0
                                 /\ PosIndex(fpositions, call.id) # 0)]]
  /\ files' = SavedPortfolio
  /\ UNCHANGED <<cash, spotVars, leverageSettings, optionsVars, now, nextId,
                 monitor, events, lastOp, ledger, storeVars, services,
                 quoteVars, timers>>

\* the engine's save is done: closePosition returns success
CloseReturn(k) ==
  LET call == inflight[k]
  IN
  /\ call.op = "closePosition" /\ call.pc = "save"
  /\ inflight' = [inflight EXCEPT ![k] = [call EXCEPT !.pc = "done",
                                                     !.ok = TRUE]]
  /\ lastOp' = NextOp([BaseOp EXCEPT !.op = "closePosition", !.ok = TRUE,
                                     !.id = call.id,
                                     !.quantity = call.quantity,
                                     !.price = call.price, !.pnl = call.pnl,
                                     !.credit = call.cashReturn])
  /\ files' = SavedFutures
  /\ UNCHANGED <<cash, spotVars, futuresVars, optionsVars, now, nextId,
                 monitor, events, ledger, storeVars, services, quoteVars, timers,
                 detached>>

\* liquidatePosition up to the await inside adjustCash: the balance has
\* changed, the ledger's save is running
LiquidateBegin(positionId, markPrice) ==
  LET i == PosIndex(fpositions, positionId)
  IN
  IF i = 0
  THEN Rejected([BaseOp EXCEPT !.op = "liquidatePosition", !.id = positionId,
                               !.price = markPrice])
  ELSE
    LET pos == fpositions[i]
        pnl == calcUnrealizedPnl(pos.side, pos.quantity, pos.entryPrice,
                                 markPrice)
        cashReturn == LiquidationCashReturn(pos, pnl)
    IN
    /\ cash' = AdjustedCash(cash, cashReturn)
    /\ ledger' = [ledger EXCEPT ![positionId].credited =
                    RAdd(@, RSub(cash', cash))]
    /\ inflight' = Append(inflight,
         [BaseCall EXCEPT !.op = "liquidatePosition", !.id = positionId,
                          !.pc = "ledger", !.price = markPrice, !.pnl = pnl,
                          !.marginReleased = pos.marginBalance,
                          !.cashReturn = cashReturn, !.inCash = TRUE])
    /\ UNCHANGED <<spotVars, futuresVars, optionsVars, now, nextId, monitor,
                   events, lastOp, storeVars, services, quoteVars, timers, detached, files>>

\* the ledger's save is done: info is taken from `pos` as it is now, the
\* position is filtered out and the liquidation is logged
LiquidateSettled(k) ==
  LET call == inflight[k]
      pos == PosObject(fpositions, call.id)
  IN
  /\ call.op = "liquidatePosition" /\ call.pc = "ledger"
  /\ fpositions' = WithoutPosition(fpositions, call.id)
  /\ detached' = DetachedWithout(fpositions, call.id)
  /\ ftransactions' = Append(ftransactions,
       FuturesTxn("liquidation", pos.ticker, pos.quantity, call.price, 0,
                  LiquidationPnl(pos, call.pnl)))
  /\ inflight' = [inflight EXCEPT ![k] =
       [call EXCEPT !.pc = "save", !.logged = TRUE,
                    !.quantity = pos.quantity,
                    !.pnl = LiquidationPnl(pos, call.pnl),
                    !.removed = (PosIndex(fpositions, call.id) # 0)]]
  /\ files' = SavedPortfolio
  /\ UNCHANGED <<cash, spotVars, leverageSettings, optionsVars, now, nextId,
                 monitor, events, lastOp, ledger, storeVars, services,
                 quoteVars, timers>>

\* the engine's save is done: liquidatePosition returns info
LiquidateReturn(k) ==
  LET call == inflight[k]
  IN
  /\ call.op = "liquidatePosition" /\ call.pc = "save"
  /\ inflight' = [inflight EXCEPT ![k] = [call EXCEPT !.pc = "done",
                                                     !.ok = TRUE]]
  /\ lastOp' = NextOp([BaseOp EXCEPT !.op = "liquidatePosition", !.ok = TRUE,
                                     !.id = call.id,
                                     !.quantity = call.quantity,
                                     !.price = call.price, !.pnl = call.pnl,
                                     !.credit = call.cashReturn])
  /\ files' = SavedFutures
  /\ UNCHANGED <<cash, spotVars, futuresVars, optionsVars, now, nextId,
                 monitor, events, ledger, storeVars, services, quoteVars, timers,
                 detached>>

\* sellOption up to `await this.fetchUnderlyingPrice(...)`
SellBegin(positionId, contracts) ==
  LET i == PosIndex(opositions, positionId)
      op == [BaseOp EXCEPT !.op = "sellOption", !.id = positionId,
                           !.quantity = contracts]
  IN
  IF i = 0 THEN Rejected(op)
  ELSE
    LET pos == opositions[i]
        sellContracts == IF contracts = UndefinedArg THEN pos.contracts
                         ELSE contracts
        sop == [op EXCEPT !.quantity = sellContracts,
                          !.ticker = pos.underlying, !.side = pos.type,
                          !.strike = pos.strikePrice,
                          !.expiry = pos.expiryDate]
    IN
    IF sellContracts <= 0 THEN Rejected(sop)
    ELSE IF ExceedsHeld(sellContracts, pos.contracts) THEN Rejected(sop)
    ELSE
      /\ inflight' = Append(inflight,
           [BaseCall EXCEPT !.op = "sellOption", !.id = positionId,
                            !.pc = "quote", !.quantity = sellContracts])
      /\ UNCHANGED <<cash, spotVars, futuresVars, optionsVars, now, nextId,
                     monitor, events, lastOp, ledger, storeVars, services,
                     quoteVars, timers, detached, files>>

\* the quote arrives: proceeds and costBasis are computed from `pos` as it
\* is now, and adjustCash changes the balance before it awaits its save
SellQuoted(k) ==
  LET call == inflight[k]
      pos == PosObject(opositions, call.id)
  IN
  /\ call.op = "sellOption" /\ call.pc = "quote"
  /\ \E quote \in StockQuotePrices(pos.underlying) \cup {Undefined} :
       IF quote = Undefined
       THEN /\ inflight' = [inflight EXCEPT ![k] = [call EXCEPT !.pc = "done"]]
            /\ UNCHANGED cash
       ELSE
         LET dte == calcDaysToExpiry(pos.expiryDate, now)
             currentPremium == calcPremium(quote, R(pos.strikePrice), dte,
                                           pos.impliedVol, pos.type)
             proceeds == TotalPremium(currentPremium, call.quantity)
             costBasis == RMul(RDiv(pos.premiumPaid, R(pos.contracts)),
                               R(call.quantity))
         IN
         /\ cash' = AdjustedCash(cash, proceeds)
         /\ inflight' = [inflight EXCEPT ![k] =
              [call EXCEPT !.pc = "ledger", !.price = currentPremium,
                           !.pnl = RSub(proceeds, costBasis),
                           !.cashReturn = proceeds, !.costBasis = costBasis,
                           !.inCash = TRUE,
                           !.paidQty = IF RLt(Zero, proceeds)
                                       THEN call.quantity ELSE 0]]
  /\ UNCHANGED <<spotVars, futuresVars, optionsVars, now, nextId, monitor,
                 events, lastOp, ledger, storeVars, services, quoteVars, timers,
                 detached, files>>

\* the ledger's save is done: the position is removed or reduced, the
\* transaction is pushed and the engine's save starts
SellSettled(k) ==
  LET call == inflight[k]
      pos == PosObject(opositions, call.id)
      remaining == pos.contracts - call.quantity
  IN
  /\ call.op = "sellOption" /\ call.pc = "ledger"
  /\ IF remaining = 0
     THEN /\ opositions' = WithoutPosition(opositions, call.id)
          /\ detached' = DetachedWithout(opositions, call.id)
     ELSE LET obj == PartiallySold(pos, call.quantity, call.costBasis)
          IN /\ opositions' = PositionsWith(opositions, obj)
             /\ detached' = DetachedWith(opositions, obj)
  /\ otransactions' = Append(otransactions,
       OptionTxn(IF pos.type = "call" THEN "sell_call" ELSE "sell_put",
                 pos.underlying, pos.strikePrice, pos.expiryDate,
                 call.quantity, call.price, call.cashReturn, call.pnl))
  /\ inflight' = [inflight EXCEPT ![k] =
       [call EXCEPT !.pc = "save", !.logged = TRUE,
                    !.removed = (remaining = 0
                                 /\ PosIndex(opositions, call.id) # 0)]]
  /\ files' = SavedPortfolio
  /\ UNCHANGED <<cash, spotVars, futuresVars, now, nextId, monitor, events,
                 lastOp, ledger, storeVars, services, quoteVars, timers>>

\* the engine's save is done: sellOption returns success
SellReturn(k) ==
  LET call == inflight[k]
  IN
  /\ call.op = "sellOption" /\ call.pc = "save"
  /\ inflight' = [inflight EXCEPT ![k] = [call EXCEPT !.pc = "done",
                                                     !.ok = TRUE]]
  /\ lastOp' = NextOp([BaseOp EXCEPT !.op = "sellOption", !.ok = TRUE,
                                     !.id = call.id,
                                     !.quantity = call.quantity,
                                     !.pnl = call.pnl,
                                     !.credit = call.cashReturn])
  /\ files' = SavedOptions
  /\ UNCHANGED <<cash, spotVars, futuresVars, optionsVars, now, nextId,
                 monitor, events, ledger, storeVars, services, quoteVars, timers,
                 detached>>

\* settleExpiredOptions up to the first `await this.fetchUnderlyingPrice`:
\* `expired` keeps the position objects it found
SettleBegin(broadcast) ==
  /\ ExpiredPositions # <<>>
  /\ inflight' = Append(inflight,
       [BaseCall EXCEPT !.op = "settleExpiredOptions", !.pc = "quote",
                        !.expired = [i \in 1..Len(ExpiredPositions) |->
                                       ExpiredPositions[i].id],
                        !.idx = 1, !.broadcast = broadcast])
  /\ UNCHANGED <<cash, spotVars, futuresVars, optionsVars, now, nextId,
                 monitor, events, lastOp, ledger, storeVars, services,
                 quoteVars, timers, detached, files>>

\* the settlement loop moves on to its next await: the quote of the next
\* expired position, or the engine's save after the last one
SettleAdvanced(call) ==
  [call EXCEPT !.idx = call.idx + 1,
               !.pc = IF call.idx < Len(call.expired) THEN "quote"
                      ELSE "save"]

\* the tail of one iteration: the transaction, the filter and the broadcast,
\* with `pos` as it is now
SettleFinish(k, call, pos, intrinsic, settlementValue, isITM) ==
  /\ otransactions' = Append(otransactions,
       OptionTxn(IF isITM THEN "expire_itm" ELSE "expire_otm",
                 pos.underlying, pos.strikePrice, pos.expiryDate,
                 pos.contracts, IF isITM THEN intrinsic ELSE Zero,
                 settlementValue, RSub(settlementValue, pos.premiumPaid)))
  /\ opositions' = WithoutPosition(opositions, pos.id)
  /\ detached' = DetachedWithout(opositions, pos.id)
  /\ events' = IF call.broadcast
               THEN Append(events,
                      ExpiredEvent(pos, isITM, settlementValue,
                                   RSub(settlementValue, pos.premiumPaid)))
               ELSE events
  /\ inflight' = [inflight EXCEPT ![k] = SettleAdvanced(call)]

\* the quote of the current expired position arrives (or its fetch throws)
SettleFetched(k) ==
  LET call == inflight[k]
      pos == PosObject(opositions, call.expired[call.idx])
  IN
  /\ call.op = "settleExpiredOptions" /\ call.pc = "quote"
  /\ \E quote \in StockQuotePrices(pos.underlying) \cup {Undefined} :
       IF quote = Undefined
       THEN /\ inflight' = [inflight EXCEPT ![k] = SettleAdvanced(call)]
            /\ UNCHANGED <<cash, optionsVars, events, detached>>
       ELSE
         LET intrinsic == calcIntrinsicValue(quote, R(pos.strikePrice),
                                             pos.type)
             settlementValue == SettlementValue(intrinsic, pos.contracts)
         IN
         IF RLt(Zero, intrinsic)
         THEN /\ cash' = AdjustedCash(cash, settlementValue)
              /\ inflight' = [inflight EXCEPT ![k] =
                   [call EXCEPT !.pc = "ledger", !.price = quote,
                                !.cashReturn = settlementValue,
                                !.inCash = TRUE,
                                !.paidQty = call.paidQty + pos.contracts]]
              /\ UNCHANGED <<optionsVars, events, detached>>
         ELSE /\ SettleFinish(k, call, pos, intrinsic, settlementValue, FALSE)
              /\ UNCHANGED cash
  /\ UNCHANGED <<spotVars, futuresVars, now, nextId, monitor, lastOp, ledger,
                 storeVars, services, quoteVars, timers, files>>

\* the ledger's save of an in-the-money settlement is done
SettleCredited(k) ==
  LET call == inflight[k]
      pos == PosObject(opositions, call.expired[call.idx])
  IN
  /\ call.op = "settleExpiredOptions" /\ call.pc = "ledger"
  /\ SettleFinish(k, call, pos,
                  calcIntrinsicValue(call.price, R(pos.strikePrice), pos.type),
                  call.cashReturn, TRUE)
  /\ files' = SavedPortfolio
  /\ UNCHANGED <<cash, spotVars, futuresVars, now, nextId, monitor, lastOp,
                 ledger, storeVars, services, quoteVars, timers>>

\* the engine's save is done: settleExpiredOptions returns
SettleReturn(k) ==
  LET call == inflight[k]
  IN
  /\ call.op = "settleExpiredOptions" /\ call.pc = "save"
  /\ inflight' = [inflight EXCEPT ![k] = [call EXCEPT !.pc = "done",
                                                     !.ok = TRUE]]
  /\ lastOp' = NextOp([BaseOp EXCEPT !.op = "settleExpiredOptions",
                                     !.ok = TRUE,
                                     !.broadcast = call.broadcast])
  /\ files' = SavedOptions
  /\ UNCHANGED <<cash, spotVars, futuresVars, optionsVars, now, nextId,
                 monitor, events, ledger, storeVars, services, quoteVars, timers,
                 detached>>

\* executeBuy / executeSell up to `await this.fetchPrice(...)`
ExecuteBegin(method, rawTicker, quantity, type) ==
  LET ticker == ToUpperCase(rawTicker)
      assetType == IF type = UndefinedType THEN getTickerType(ticker) ELSE type
  IN
  IF quantity <= 0
  THEN Rejected([BaseOp EXCEPT !.op = method, !.ticker = ticker,
                               !.quantity = quantity, !.side = assetType])
  ELSE
    /\ inflight' = Append(inflight,
         [BaseCall EXCEPT !.op = method, !.pc = "quote", !.ticker = ticker,
                          !.quantity = quantity, !.assetType = assetType])
    /\ UNCHANGED <<cash, spotVars, futuresVars, optionsVars, now, nextId,
                   monitor, events, lastOp, ledger, storeVars, services,
                   quoteVars, timers, detached, files>>

\* the call returns success=false: nothing was changed
ExecuteFailed(k) ==
  /\ inflight' = [inflight EXCEPT ![k] = [@ EXCEPT !.pc = "done"]]
  /\ UNCHANGED <<cash, spotVars>>

\* the quote arrives: buyStock / sellStock changes the ledger and pushes its
\* transaction before it awaits the save
ExecuteQuoted(k) ==
  LET call == inflight[k]
      ticker == call.ticker
  IN
  /\ call.op \in {"executeBuy", "executeSell"} /\ call.pc = "quote"
  /\ \E quote \in SpotQuoteOutcomes(ticker, call.assetType) :
       LET amount == RMul(R(call.quantity), quote)
           saving == [call EXCEPT !.pc = "save", !.price = quote,
                                 !.inCash = TRUE]
       IN
       IF quote = Undefined THEN ExecuteFailed(k)
       ELSE IF RLe(quote, Zero) THEN ExecuteFailed(k)
       ELSE IF call.op = "executeBuy"
       THEN
         IF InsufficientCash(cash, amount) THEN ExecuteFailed(k)
         ELSE
           /\ cash' = RSub(cash, amount)
           /\ holdings' = [t \in DOMAIN holdings \cup {ticker} |->
                IF t = ticker
                THEN BoughtHolding(ticker, call.quantity, quote,
                                   call.assetType)
                ELSE holdings[t]]
           /\ tickerTypes' = [t \in DOMAIN tickerTypes \cup {ticker} |->
                IF t = ticker THEN call.assetType ELSE tickerTypes[t]]
           /\ transactionHistory' = Append(transactionHistory,
                SpotTxn("buy", ticker, call.quantity, quote))
           /\ inflight' = [inflight EXCEPT ![k] = saving]
       ELSE
         IF ticker \notin DOMAIN holdings THEN ExecuteFailed(k)
         ELSE IF ExceedsHeld(call.quantity, holdings[ticker].quantity)
         THEN ExecuteFailed(k)
         ELSE
           /\ cash' = RAdd(cash, amount)
           /\ holdings' = SoldHoldings(ticker, call.quantity)
           /\ transactionHistory' = Append(transactionHistory,
                SpotTxn("sell", ticker, call.quantity, quote))
           /\ inflight' = [inflight EXCEPT ![k] = saving]
           /\ UNCHANGED tickerTypes
  /\ UNCHANGED <<futuresVars, optionsVars, now, nextId, monitor, events,
                 lastOp, ledger, storeVars, services, quoteVars, timers, detached, files>>

\* the save is done: the call returns history[history.length - 1]
ExecuteReturn(k) ==
  LET call == inflight[k]
      transaction == transactionHistory[Len(transactionHistory)]
  IN
  /\ call.op \in {"executeBuy", "executeSell"} /\ call.pc = "save"
  /\ inflight' = [inflight EXCEPT ![k] =
       [call EXCEPT !.pc = "done", !.ok = TRUE,
                    !.transaction = transaction]]
  /\ lastOp' = NextOp([BaseOp EXCEPT !.op = call.op, !.ok = TRUE,
                                     !.ticker = call.ticker,
                                     !.quantity = call.quantity,
                                     !.side = call.assetType,
                                     !.price = call.price])
  /\ files' = SavedPortfolio
  /\ UNCHANGED <<cash, spotVars, futuresVars, optionsVars, now, nextId,
                 monitor, events, ledger, storeVars, services, quoteVars, timers,
                 detached>>

\* openPosition up to `await this.fetchMarkPrice(ticker)`
OpenBegin(rawTicker, quantity, side, leverage) ==
  LET ticker == ToUpperCase(rawTicker)
      lev == IF leverage = UndefinedArg THEN getLeverage(ticker) ELSE leverage
      op == [BaseOp EXCEPT !.op = "openPosition", !.ticker = ticker,
                           !.quantity = quantity, !.side = side,
                           !.leverage = lev, !.raw = rawTicker]
  IN
  IF quantity <= 0 THEN Rejected(op)
  ELSE IF LeverageOutOfRange(lev) THEN Rejected(op)
  ELSE
    /\ inflight' = Append(inflight,
         [BaseCall EXCEPT !.op = "openPosition", !.pc = "quote",
                          !.ticker = ticker, !.quantity = quantity,
                          !.side = side, !.leverage = lev])
    /\ UNCHANGED <<cash, spotVars, futuresVars, optionsVars, now, nextId,
                   monitor, events, lastOp, ledger, storeVars, services,
                   quoteVars, timers, detached, files>>

\* the quote arrives: the position object is built and adjustCash takes the
\* margin before it awaits its save
OpenQuoted(k) ==
  LET call == inflight[k]
  IN
  /\ call.op = "openPosition" /\ call.pc = "quote"
  /\ \E quote \in OpenQuoteOutcomes(MarkSymbol(call.ticker)) :
       IF \/ quote = Undefined
          \/ RLt(cash, calcInitialMargin(call.quantity, quote, call.leverage))
       THEN /\ inflight' = [inflight EXCEPT ![k] = [call EXCEPT !.pc = "done"]]
            /\ UNCHANGED <<cash, nextId, ledger, detached>>
       ELSE
         LET position == NewPosition(nextId, call.ticker, call.side,
                                     call.quantity, quote, call.leverage)
         IN
         /\ cash' = AdjustedCash(cash, RNeg(position.initialMargin))
         /\ nextId' = nextId + 1
         /\ ledger' = ledger @@ (nextId :> [debited |-> position.initialMargin,
                                            credited |-> Zero,
                                            liquidated |-> <<>>,
                                            opened |-> call.quantity])
         /\ detached' = (nextId :> position) @@ detached
         /\ inflight' = [inflight EXCEPT ![k] =
              [call EXCEPT !.pc = "ledger", !.id = nextId, !.price = quote,
                           !.inCash = TRUE]]
  /\ UNCHANGED <<spotVars, futuresVars, optionsVars, now, monitor, events,
                 lastOp, storeVars, services, quoteVars, timers, files>>

\* the ledger's save is done: the position and the transaction are pushed
\* and the engine's save starts
OpenSettled(k) ==
  LET call == inflight[k]
  IN
  /\ call.op = "openPosition" /\ call.pc = "ledger"
  /\ fpositions' = Append(fpositions, detached[call.id])
  /\ ftransactions' = Append(ftransactions,
       FuturesTxn(IF call.side = "long" THEN "open_long" ELSE "open_short",
                  call.ticker, call.quantity, call.price, call.leverage,
                  Undefined))
  /\ inflight' = [inflight EXCEPT ![k] = [call EXCEPT !.pc = "save",
                                                     !.logged = TRUE]]
  /\ files' = SavedPortfolio
  /\ UNCHANGED <<cash, spotVars, leverageSettings, optionsVars, now, nextId,
                 monitor, events, lastOp, ledger, storeVars, services,
                 quoteVars, timers, detached>>

\* the engine's save is done: openPosition returns the position
OpenReturn(k) ==
  LET call == inflight[k]
  IN
  /\ call.op = "openPosition" /\ call.pc = "save"
  /\ inflight' = [inflight EXCEPT ![k] = [call EXCEPT !.pc = "done",
                                                     !.ok = TRUE]]
  /\ lastOp' = NextOp([BaseOp EXCEPT !.op = "openPosition", !.ok = TRUE,
                                     !.id = call.id, !.ticker = call.ticker,
                                     !.quantity = call.quantity,
                                     !.side = call.side,
                                     !.leverage = call.leverage,
                                     !.price = call.price, !.pnl = Zero])
  /\ files' = SavedFutures
  /\ UNCHANGED <<cash, spotVars, futuresVars, optionsVars, now, nextId,
                 monitor, events, ledger, storeVars, services, quoteVars, timers,
                 detached>>

\* the process stops where it is; a new one loads portfolio.json and the
\* engine files. The calls that were suspended are gone
Reload ==
  /\ cash' = files.portfolio.cash
  /\ holdings' = files.portfolio.holdings
  /\ transactionHistory' = files.portfolio.transactionHistory
  /\ tickerTypes' = files.portfolio.tickerTypes
  /\ fpositions' = files.futures.positions
  /\ ftransactions' = files.futures.transactions
  /\ opositions' = files.options.positions
  /\ otransactions' = files.options.transactions
  /\ inflight' = [k \in 1..Len(inflight) |->
       [inflight[k] EXCEPT !.pc = IF @ = "done" THEN @ ELSE "stopped",
                           !.inCash = (k \in files.portfolio.paid)]]
  /\ detached' = EmptyMap
  /\ lastOp' = NextOp([BaseOp EXCEPT !.op = "reload", !.ok = TRUE])
  /\ UNCHANGED <<leverageSettings, now, nextId, monitor, events, ledger,
                 storeVars, services, quoteVars, timers, files>>

\* ------------------------------------------------------------------------
\* Background schedules (the gateway's interval timers)
\* ------------------------------------------------------------------------
Monitors == {"checkFuturesLiquidation", "settleExpiredOptions"}

\* (mutation: a tick is never skipped)
TickSkipped_Never(m) == FALSE

\* drop-tick policy: a scheduled tick is skipped while the prior run of the
\* monitor is still running
TickSkipped(m) == timers[m].running > 0

\* the interval of monitor m elapses (every 10 s, every hour)
TimerFires(m) ==
  /\ timers' = [timers EXCEPT ![m] =
       IF TickSkipped(m)
       THEN [@ EXCEPT !.fired = @ + 1, !.skipped = @ + 1]
       ELSE [@ EXCEPT !.fired = @ + 1, !.running = @ + 1]]
  /\ UNCHANGED <<cash, spotVars, futuresVars, optionsVars, now, nextId,
                 monitor, events, lastOp, ledger, storeVars, services,
                 quoteVars, inflight, detached, files>>

\* a run of monitor m returns (or throws: the schedule goes on)
RunEnds(m) ==
  /\ timers[m].running > 0
  /\ timers' = [timers EXCEPT ![m].running = @ - 1]
  /\ UNCHANGED <<cash, spotVars, futuresVars, optionsVars, now, nextId,
                 monitor, events, lastOp, ledger, storeVars, services,
                 quoteVars, inflight, detached, files>>

\* the state of a process that has just started, on an empty disk
Init ==
  /\ cash = R(100000)
  /\ holdings = EmptyMap
  /\ transactionHistory = <<>>
  /\ tickerTypes = EmptyMap
  /\ fpositions = <<>>
  /\ leverageSettings = [t \in FuturesTickers |-> 0]
  /\ ftransactions = <<>>
  /\ opositions = <<>>
  /\ otransactions = <<>>
  /\ now = 21
  /\ nextId = 1
  /\ monitor = IdleMonitor
  /\ events = <<>>
  /\ lastOp = BaseOp
  /\ ledger = EmptyMap
  /\ disk = EmptyMap
  /\ heap = <<DEFAULT_DATA>>
  /\ saves = <<>>
  /\ stores = [path \in StoragePaths |->
                 [pc |-> "new", ref |-> 0, save |-> 0]]
  /\ services = [svc \in Services |->
                   [servicePromise |-> 0, promises |-> <<>>,
                    calls |-> <<>>, loads |-> 0]]
  /\ qcache = [provider \in Providers |-> EmptyMap]
  /\ dateNow = 0
  /\ pending = <<>>
  /\ fetched = [provider \in Providers |-> EmptyMap]
  /\ lastQuote = NoQuote
  /\ inflight = <<>>
  /\ detached = EmptyMap
  /\ files = [portfolio |-> [cash |-> R(100000), holdings |-> EmptyMap,
                             transactionHistory |-> <<>>,
                             tickerTypes |-> EmptyMap, paid |-> {}],
              futures |-> [positions |-> <<>>, transactions |-> <<>>],
              options |-> [positions |-> <<>>, transactions |-> <<>>]]
  /\ timers = [m \in Monitors |-> [running |-> 0, fired |-> 0, skipped |-> 0]]

\* ------------------------------------------------------------------------
\* Specifications
\* ------------------------------------------------------------------------
\* the futures engine, the liquidation monitor and the ledger's cash
Next ==
  \/ \E delta \in AdjustCashDeltas : lastOp.seq < MaxOps /\ AdjustCash(delta)
  \/ \E cashArg \in ResetArgs : lastOp.seq < MaxOps /\ Reset(cashArg)
  \/ \E t \in RawTickers, q \in OpenQuantities, s \in Sides, l \in Leverages :
       \E quote \in OpenQuoteOutcomes(MarkSymbol(ToUpperCase(t))) :
         /\ lastOp.seq < MaxOps
         /\ Len(fpositions) < MaxPositions
         /\ OpenPosition(t, q, s, l, quote)
  \/ \E id \in 1..(nextId - 1), q \in CloseQuantities :
       lastOp.seq < MaxOps /\ ClosePosition(id, q)
  \/ lastOp.seq < MaxOps /\ GetPositions
  \/ \E b \in BOOLEAN : lastOp.seq < MaxOps /\ TickStart(b)
  \/ TickStep

Spec == Init /\ [][Next]_vars

\* the three product lines drawing on the one cash balance
SpotOrders == {<<"NVDA", "stock">>, <<"eth", UndefinedType>>}
SpotQuantities == {5, 100}
OptionTypes == {"call", "put"}
OptionStrikes == {750}
OptionExpiries == {0, 365}
OptionContracts == {1, 3}

NextCash ==
  \/ \E o \in SpotOrders, q \in SpotQuantities :
       lastOp.seq < MaxCashOps /\ ExecuteBuy(o[1], q, o[2])
  \/ \E o \in SpotOrders, q \in SpotQuantities :
       lastOp.seq < MaxCashOps /\ ExecuteSell(o[1], q, o[2])
  \/ \E q \in OpenQuantities, s \in Sides, l \in {1, 10} :
       \E quote \in OpenQuoteOutcomes("BTCUSDT") :
         /\ lastOp.seq < MaxCashOps
         /\ Len(fpositions) < MaxPositions
         /\ OpenPosition("BTC", q, s, l, quote)
  \/ \E id \in 1..(nextId - 1) :
       lastOp.seq < MaxCashOps /\ ClosePosition(id, UndefinedArg)
  \/ \E ty \in OptionTypes, k \in OptionStrikes, e \in OptionExpiries,
        c \in OptionContracts :
       lastOp.seq < MaxCashOps /\ BuyOption("nvda", ty, k, e, c)
  \/ \E delta \in AdjustCashDeltas :
       lastOp.seq < MaxCashOps /\ AdjustCash(delta)

SpecCash == Init /\ [][NextCash]_vars

\* leverage settings against opens and closes
NextLev ==
  \/ \E t \in RawTickers, l \in BoundaryLeverages :
       lastOp.seq < MaxLevOps /\ SetLeverage(t, l)
  \/ \E t \in RawTickers, s \in Sides,
        l \in BoundaryLeverages \cup {UndefinedArg} :
       \E quote \in OpenQuoteOutcomes(MarkSymbol(ToUpperCase(t))) :
         /\ lastOp.seq < MaxLevOps
         /\ Len(fpositions) < MaxPositions
         /\ OpenPosition(t, 1, s, l, quote)
  \/ \E id \in 1..(nextId - 1) :
       lastOp.seq < MaxLevOps /\ ClosePosition(id, UndefinedArg)

SpecLev == Init /\ [][NextLev]_vars

\* the spot engine on its own
NextSpot ==
  \/ \E o \in SpotOrders, q \in SpotQuantities :
       lastOp.seq < MaxSpotOps /\ ExecuteBuy(o[1], q, o[2])
  \/ \E o \in SpotOrders, q \in SpotQuantities :
       lastOp.seq < MaxSpotOps /\ ExecuteSell(o[1], q, o[2])
  \/ \E cashArg \in ResetArgs : lastOp.seq < MaxSpotOps /\ Reset(cashArg)

SpecSpot == Init /\ [][NextSpot]_vars

\* option types, contract counts and sell amounts as callers may pass them
AnyOptionTypes == {"call", "put", "straddle"}
AnyOptionContracts == {0, 1, 3}
SellContracts == {UndefinedArg, 1, 5}

\* the trading operations of the three engines, refusals included
NextTrade ==
  \/ \E o \in SpotOrders, q \in SpotQuantities :
       lastOp.seq < MaxTradeOps /\ ExecuteBuy(o[1], q, o[2])
  \/ \E o \in SpotOrders, q \in SpotQuantities :
       lastOp.seq < MaxTradeOps /\ ExecuteSell(o[1], q, o[2])
  \/ \E q \in OpenQuantities, s \in Sides :
       \E quote \in OpenQuoteOutcomes("BTCUSDT") :
         /\ lastOp.seq < MaxTradeOps
         /\ Len(fpositions) < MaxPositions
         /\ OpenPosition("BTC", q, s, 10, quote)
  \/ \E id \in 1..nextId, q \in CloseQuantities :
       lastOp.seq < MaxTradeOps /\ ClosePosition(id, q)
  \/ \E ty \in AnyOptionTypes, k \in OptionStrikes, e \in OptionExpiries,
        c \in AnyOptionContracts :
       lastOp.seq < MaxTradeOps /\ BuyOption("nvda", ty, k, e, c)
  \/ \E id \in 1..nextId, c \in SellContracts :
       lastOp.seq < MaxTradeOps /\ SellOption(id, c)
  \/ \E ty \in OptionTypes, k \in OptionStrikes, e \in OptionExpiries :
       lastOp.seq < MaxTradeOps /\ GetQuote("nvda", ty, k, e)

SpecTrade == Init /\ [][NextTrade]_vars

\* the options engine over the life of its positions
LongExpiries == {365, 1460}

NextOpt ==
  \/ \E ty \in OptionTypes, k \in OptionStrikes, e \in LongExpiries,
        c \in OptionContracts :
       lastOp.seq < MaxOptOps /\ BuyOption("aapl", ty, k, e, c)
  \/ \E id \in 1..(nextId - 1), c \in SellContracts :
       lastOp.seq < MaxOptOps /\ SellOption(id, c)
  \/ \E b \in BOOLEAN : lastOp.seq < MaxOptOps /\ SettleExpiredOptions(b)
  \/ \E t \in ClockValues : AdvanceClock(t)

SpecOpt == Init /\ [][NextOpt]_vars

\* the settlement timer keeps firing after the last purchase, and for every
\* position the quote is fetched in some later run
NextSettle ==
  \/ \E k \in OptionStrikes, e \in LongExpiries :
       lastOp.seq < MaxLiveOps /\ BuyOption("aapl", "call", k, e, 1)
  \/ SettleExpiredOptions(FALSE)
  \/ \E t \in ClockValues : AdvanceClock(t)

SpecSettle ==
  /\ Init
  /\ [][NextSettle]_vars
  /\ \A id \in 1..MaxLiveOps : WF_vars(SettleQuoted(id))

\* the stores and their files: loads, operations that save, the steps of
\* every save under way, and process restarts
NextStore ==
  \/ \E path \in StoragePaths : Len(saves) < MaxSaves /\ LoadRead(path)
  \/ \E path \in StoragePaths : LoadReturn(path)
  \/ \E path \in StoragePaths, delta \in {-95000} :
       Len(saves) < MaxSaves /\ StoreAdjustCash(path, delta)
  \/ \E path \in StoragePaths, cost \in {20000} :
       Len(saves) < MaxSaves /\ StoreBuyStock(path, cost)
  \/ \E i \in 1..Len(saves) : SaveMkdir(i)
  \/ \E i \in 1..Len(saves) : SaveOpen(i)
  \/ \E i \in 1..Len(saves) : SaveWrite(i)
  \/ \E i \in 1..Len(saves) : SaveRename(i)
  \/ ProcessRestart

SpecStore == Init /\ [][NextStore]_vars

\* callers of the three service accessors
NextService ==
  \/ \E svc \in Services :
       Len(services[svc].calls) < MaxCalls /\ GetService(svc)
  \/ \E svc \in Services, k \in 1..MaxCalls, ok \in BOOLEAN :
       InitSettles(svc, k, ok)
  \/ \E svc \in Services, c \in 1..MaxCalls : AwaitService(svc, c)

SpecService == Init /\ [][NextService]_vars

\* callers of the two quote providers, the exchanges and the clock
NextQuotes ==
  \/ \E provider \in Providers :
       \E symbol \in IF provider = "binance" THEN {"btcusdt", "BTCUSDT"}
                    ELSE {"aapl", "AAPL"} :
         lastQuote.seq < MaxQuoteOps /\ FetchQuote(provider, symbol)
  \/ \E i \in 1..Len(pending) :
       \E quote \in ProviderQuotes(pending[i].provider, pending[i].key) :
         FetchAnswer(i, quote)
  \/ \E provider \in Providers :
       lastQuote.seq < MaxQuoteOps /\ ClearCache(provider)
  \/ \E provider \in Providers :
       \E symbols \in IF provider = "binance"
                     THEN {<<"btcusdt", "ETHUSDT">>}
                     ELSE {<<"aapl", "NVDA">>} :
         lastQuote.seq < MaxQuoteOps /\ FetchQuotes(provider, symbols)
  \/ \E ms \in {15000} :
       dateNow + ms <= MaxLifetimes * CACHE_TTL_MS /\ Elapse(ms)

SpecQuotes == Init /\ [][NextQuotes]_vars


\* the three product lines, resets and snapshots of the whole account
NextAccount ==
  \/ \E o \in SpotOrders :
       lastOp.seq < MaxAcctOps /\ ExecuteBuy(o[1], 5, o[2])
  \/ \E o \in SpotOrders, q \in {2, 5} :
       lastOp.seq < MaxAcctOps /\ ExecuteSell(o[1], q, o[2])
  \/ \E s \in Sides, quote \in OpenQuoteOutcomes("BTCUSDT") :
       /\ lastOp.seq < MaxAcctOps
       /\ Len(fpositions) < MaxPositions
       /\ OpenPosition("BTC", 5, s, 10, quote)
  \/ \E id \in 1..(nextId - 1), q \in {UndefinedArg, 2} :
       lastOp.seq < MaxAcctOps /\ ClosePosition(id, q)
  \/ \E ty \in OptionTypes :
       lastOp.seq < MaxAcctOps /\ BuyOption("aapl", ty, 750, 365, 2)
  \/ \E id \in 1..(nextId - 1), c \in {UndefinedArg, 1} :
       lastOp.seq < MaxAcctOps /\ SellOption(id, c)
  \/ \E cashArg \in ResetArgs : lastOp.seq < MaxAcctOps /\ Reset(cashArg)
  \/ lastOp.seq < MaxAcctOps /\ GetEnrichedSnapshot

SpecAccount == Init /\ [][NextAccount]_vars

\* one futures position and the closes and liquidations that overlap on it
\* (the monitor awaits each liquidation before it starts the next)
NextOverlap ==
  \/ \E s \in Sides :
       lastOp.seq = 0 /\ OpenPosition("BTC", 5, s, 10, R(60000))
  \/ \E id \in 1..(nextId - 1), q \in {UndefinedArg, 3} :
       /\ Len(inflight) < MaxInFlight /\ lastOp.seq <= MaxInFlight
       /\ CloseBegin(id, q)
  \/ \E k \in 1..Len(inflight) : CloseQuoted(k)
  \/ \E k \in 1..Len(inflight) : CloseSettled(k)
  \/ \E k \in 1..Len(inflight) : CloseReturn(k)
  \/ \E id \in PositionIds(fpositions), mp \in QuotePrices("BTCUSDT") :
       /\ Len(inflight) < MaxInFlight
       /\ \A k \in 1..Len(inflight) :
            inflight[k].op = "liquidatePosition" => inflight[k].pc = "done"
       /\ shouldLiquidate(PosObject(fpositions, id), mp)
       /\ LiquidateBegin(id, mp)
  \/ \E k \in 1..Len(inflight) : LiquidateSettled(k)
  \/ \E k \in 1..Len(inflight) : LiquidateReturn(k)

SpecOverlap == Init /\ [][NextOverlap]_vars

\* one option position and the sales and settlement runs that overlap on it
NextOptOverlap ==
  \/ \E ty \in OptionTypes :
       lastOp.seq = 0 /\ BuyOption("aapl", ty, 750, 365, 2)
  \/ AdvanceClock(ExpiryInstant(365))
  \/ \E id \in 1..(nextId - 1), c \in {UndefinedArg, 1} :
       /\ Len(inflight) < MaxInFlight /\ lastOp.seq <= MaxInFlight
       /\ SellBegin(id, c)
  \/ \E k \in 1..Len(inflight) : SellQuoted(k)
  \/ \E k \in 1..Len(inflight) : SellSettled(k)
  \/ \E k \in 1..Len(inflight) : SellReturn(k)
  \/ \E b \in BOOLEAN :
       /\ Len(inflight) < MaxInFlight
       /\ \A k \in 1..Len(inflight) :
            inflight[k].op = "settleExpiredOptions" => inflight[k].pc = "done"
       /\ SettleBegin(b)
  \/ \E k \in 1..Len(inflight) : SettleFetched(k)
  \/ \E k \in 1..Len(inflight) : SettleCredited(k)
  \/ \E k \in 1..Len(inflight) : SettleReturn(k)

SpecOptOverlap == Init /\ [][NextOptOverlap]_vars

\* spot trades that overlap at their quote fetch and at their save
NextSpotOverlap ==
  \/ \E o \in SpotOrders, q \in {2, 5} :
       Len(inflight) < MaxInFlight /\ ExecuteBegin("executeBuy", o[1], q, o[2])
  \/ \E o \in SpotOrders, q \in {2, 5} :
       Len(inflight) < MaxInFlight /\ ExecuteBegin("executeSell", o[1], q, o[2])
  \/ \E k \in 1..Len(inflight) : ExecuteQuoted(k)
  \/ \E k \in 1..Len(inflight) : ExecuteReturn(k)

SpecSpotOverlap == Init /\ [][NextSpotOverlap]_vars

\* a futures position opened and closed await by await, in a process that
\* may stop at any point and be started again from its files
NextPersist ==
  \/ \E s \in Sides :
       Len(inflight) < MaxInFlight /\ OpenBegin("BTC", 5, s, 10)
  \/ \E k \in 1..Len(inflight) : OpenQuoted(k)
  \/ \E k \in 1..Len(inflight) : OpenSettled(k)
  \/ \E k \in 1..Len(inflight) : OpenReturn(k)
  \/ \E id \in 1..(nextId - 1), q \in {UndefinedArg, 3} :
       /\ Len(inflight) < MaxInFlight /\ lastOp.seq <= MaxInFlight
       /\ CloseBegin(id, q)
  \/ \E k \in 1..Len(inflight) : CloseQuoted(k)
  \/ \E k \in 1..Len(inflight) : CloseSettled(k)
  \/ \E k \in 1..Len(inflight) : CloseReturn(k)
  \/ \E id \in PositionIds(fpositions), mp \in QuotePrices("BTCUSDT") :
       /\ Len(inflight) < MaxInFlight
       /\ shouldLiquidate(PosObject(fpositions, id), mp)
       /\ LiquidateBegin(id, mp)
  \/ \E k \in 1..Len(inflight) : LiquidateSettled(k)
  \/ \E k \in 1..Len(inflight) : LiquidateReturn(k)
  \/ lastOp.seq <= MaxInFlight /\ inflight # <<>> /\ Reload

SpecPersist == Init /\ [][NextPersist]_vars

\* the two interval timers and the runs they start
NextSchedule ==
  \/ \E m \in Monitors : timers[m].fired < MaxTicks /\ TimerFires(m)
  \/ \E m \in Monitors : RunEnds(m)

SpecSchedule == Init /\ [][NextSchedule]_vars

\* ------------------------------------------------------------------------
\* Properties
\* ------------------------------------------------------------------------
\* the step is one new user operation (or the start of a monitor tick)
IsNewOp == lastOp'.seq = lastOp.seq + 1

\* the step is one iteration of the monitor's loop
IsMonitorStep == monitor.pc = "loop" /\ monitor'.idx = monitor.idx + 1

\* the state right after the last iteration of a tick nothing interleaved with
TickEnded ==
  /\ monitor.pc = "idle"
  /\ monitor.clean
  /\ lastOp.op = "liquidationStep"

\* C1: after any sequence of public operations portfolio.cash is >= 0.
C1_CashNonNegative == RLe(Zero, cash)

\* what a buy costs, from its arguments and its quote
BuyCost(o) ==
  CASE o.op = "executeBuy" -> RMul(R(o.quantity), o.price)
    [] o.op = "openPosition" -> RDiv(RMul(R(o.quantity), o.price), R(o.leverage))
    [] o.op = "buyOption" ->
         RMul(RMul(calcPremium(o.price, R(o.strike),
                               calcDaysToExpiry(o.expiry, now),
                               getImpliedVol(o.ticker), o.side),
                   R(100)), R(o.quantity))

\* valid parameters and an available quote
BuyIsValid(o) ==
  /\ o.op \in {"executeBuy", "openPosition", "buyOption"}
  /\ o.quantity > 0
  /\ o.price # Undefined
  /\ RLt(Zero, o.price)
  /\ o.op = "openPosition" => o.leverage \in 1..150
  /\ o.op = "buyOption" => /\ o.side \in {"call", "put"}
                           /\ ExpiryInstant(o.expiry) > now

\* C2: a spot buy, a futures open and an option buy with valid parameters and
\* a quote succeed exactly when cash is at least their cost; on success cash
\* decreases by exactly the cost, on rejection cash, holdings, positions and
\* transactions are unchanged.
C2_SharedCash ==
  [][(IsNewOp /\ BuyIsValid(lastOp')) =>
       /\ lastOp'.ok <=> RLe(BuyCost(lastOp'), cash)
       /\ lastOp'.ok => cash' = RSub(cash, BuyCost(lastOp'))
       /\ ~lastOp'.ok => UNCHANGED <<cash, holdings, fpositions, opositions,
                                     transactionHistory, ftransactions,
                                     otransactions>>]_vars

\* an option buy succeeded after a spot buy and a futures open took cash
C2_Witness ==
  /\ lastOp.op = "buyOption" /\ lastOp.ok
  /\ DOMAIN holdings # {}
  /\ fpositions # <<>>
  /\ RLt(cash, lastOp.cashBefore)

\* C3: opening a futures position at mark P and fully closing it right away
\* at mark P yields pnl = 0, removes the position and returns cash to its
\* value before the open.
C3_RoundTrip ==
  [][(/\ lastOp.op = "openPosition" /\ lastOp.ok
      /\ IsNewOp
      /\ lastOp'.op = "closePosition" /\ lastOp'.ok
      /\ lastOp'.id = lastOp.id
      /\ lastOp'.quantity = lastOp.quantity
      /\ lastOp'.price = lastOp.price) =>
       /\ lastOp'.pnl = Zero
       /\ lastOp.id \notin PositionIds(fpositions')
       /\ cash' = lastOp.cashBefore]_vars

\* a position of 5 units was opened by the first operation and fully closed
\* at the same mark by the second
C3_Witness ==
  /\ lastOp.op = "closePosition" /\ lastOp.ok /\ lastOp.seq = 2
  /\ Len(ftransactions) = 2
  /\ ftransactions[1].type \in {"open_long", "open_short"}
  /\ ftransactions[2].price = ftransactions[1].price
  /\ ftransactions[2].quantity = 5
  /\ ftransactions[1].quantity = 5
  /\ fpositions = <<>>

\* the step closes (part of) a position or liquidates one
IsCreditStep ==
  /\ lastOp'.ok
  /\ \/ IsNewOp /\ lastOp'.op = "closePosition"
     \/ IsMonitorStep /\ lastOp'.op = "liquidationStep"

\* C4: every cash credit of a close or a liquidation is
\* max(0, marginReleased + pnl) >= 0, so the net cash lost on a position
\* never exceeds the initialMargin debited when it was opened.
C4_IsolatedMargin ==
  [][IsCreditStep =>
       LET pos == fpositions[PosIndex(fpositions, lastOp'.id)]
           released == IF lastOp'.op = "closePosition"
                       THEN RMul(Frac(lastOp'.quantity, pos.quantity),
                                 pos.initialMargin)
                       ELSE pos.marginBalance
           pnl == calcUnrealizedPnl(pos.side, lastOp'.quantity,
                                    pos.entryPrice, lastOp'.price)
           l == ledger'[lastOp'.id]
       IN /\ lastOp'.credit = RMax(Zero, RAdd(released, pnl))
          /\ RLe(Zero, lastOp'.credit)
          /\ RLe(Zero, RSub(cash', cash))
          /\ RLe(RSub(l.debited, l.credited), l.debited)]_vars

\* a position was partially closed at a profit or loss and then liquidated,
\* and got back less than the margin it was opened with
C4_Witness ==
  \E id \in DOMAIN ledger :
    /\ ledger[id].liquidated # <<>>
    /\ ledger[id].liquidated[1].pos.realizedPnl # Zero
    /\ RLt(ledger[id].credited, ledger[id].debited)

\* the monitor's trigger for a snapshot position at the fetched quote m
Triggered(p, m) ==
  /\ m # Undefined
  /\ \/ p.side = "long" /\ RLe(m, p.liquidationPrice)
     \/ p.side = "short" /\ RLe(p.liquidationPrice, m)

\* the futures transactions the tick appended
TickTxns == {j \in 1..Len(ftransactions) : j > monitor.txnStart}

\* C5: after a tick without concurrent operations, a position that existed at
\* its start is removed (and a liquidation transaction appended) iff it is
\* long with M <= liquidationPrice or short with M >= liquidationPrice; every
\* other position is still open with unchanged quantity and margin.
C5_LiquidationIff ==
  TickEnded =>
    /\ \A k \in 1..Len(monitor.positions) :
         LET p == monitor.positions[k]
             m == monitor.prices[p.ticker]
         IN /\ p.id \notin PositionIds(fpositions) <=> Triggered(p, m)
            /\ Triggered(p, m) =>
                 \E j \in TickTxns :
                   /\ ftransactions[j].type = "liquidation"
                   /\ ftransactions[j].ticker = p.ticker
                   /\ ftransactions[j].quantity = p.quantity
                   /\ ftransactions[j].price = m
            /\ ~Triggered(p, m) =>
                 \E i \in 1..Len(fpositions) :
                   /\ fpositions[i].id = p.id
                   /\ fpositions[i].quantity = p.quantity
                   /\ fpositions[i].initialMargin = p.initialMargin
                   /\ fpositions[i].marginBalance = p.marginBalance
    /\ Cardinality(TickTxns) =
         Cardinality({k \in 1..Len(monitor.positions) :
                        monitor.positions[k].id \notin PositionIds(fpositions)})

\* a tick with quotes for all its tickers removed one position (a short) and
\* kept another
C5_Witness ==
  /\ TickEnded
  /\ Len(monitor.positions) = 2
  /\ Len(fpositions) = 1
  /\ \A k \in 1..2 : monitor.prices[monitor.positions[k].ticker] # Undefined
  /\ \E k \in 1..2 : /\ monitor.positions[k].side = "short"
                     /\ monitor.positions[k].id \notin PositionIds(fpositions)

\* C6: when the quote of a ticker fails during a tick, no position of that
\* ticker is liquidated in that tick: those positions, cash and the futures
\* transactions are left unchanged, while positions of tickers whose quote
\* succeeded are still evaluated.
C6_FailedQuoteSkipsTicker ==
  TickEnded =>
    /\ \A k \in 1..Len(monitor.positions) :
         LET p == monitor.positions[k]
             m == monitor.prices[p.ticker]
         IN /\ m = Undefined =>
                 /\ \E i \in 1..Len(fpositions) : fpositions[i] = p
                 /\ \A j \in TickTxns : ftransactions[j].ticker # p.ticker
            /\ Triggered(p, m) => p.id \notin PositionIds(fpositions)
    /\ (\A k \in 1..Len(monitor.positions) :
          monitor.prices[monitor.positions[k].ticker] = Undefined) =>
         /\ cash = monitor.cashStart
         /\ TickTxns = {}
         /\ fpositions = monitor.positions

\* one ticker's quote failed and its position stayed; the other ticker's
\* quote succeeded and its position was liquidated in the same tick
C6_Witness ==
  /\ TickEnded
  /\ \E k, l \in 1..Len(monitor.positions) :
       LET p == monitor.positions[k]
           q == monitor.positions[l]
       IN /\ monitor.prices[p.ticker] = Undefined
          /\ p.id \in PositionIds(fpositions)
          /\ monitor.prices[q.ticker] # Undefined
          /\ q.id \notin PositionIds(fpositions)

\* the events broadcast for position id
EventsOf(id) == {k \in 1..Len(events) : events[k].id = id}

\* C7: with a broadcaster registered the monitor emits exactly one
\* futures.liquidation event per liquidated position, carrying its ticker,
\* side, quantity, entryPrice and the triggering mark price, only after the
\* position was removed and the credit applied; no event for other positions.
C7_OneEventPerLiquidation ==
  /\ \A k \in 1..Len(events) : /\ events[k].id \in DOMAIN ledger
                               /\ events[k].event = "futures.liquidation"
  /\ \A id \in DOMAIN ledger :
       IF ledger[id].liquidated # <<>> /\ ledger[id].liquidated[1].broadcast
       THEN /\ Cardinality(EventsOf(id)) = 1
            /\ id \notin PositionIds(fpositions)
            /\ \A k \in EventsOf(id) :
                 LET liq == ledger[id].liquidated[1]
                 IN /\ events[k].ticker = liq.pos.ticker
                    /\ events[k].side = liq.pos.side
                    /\ events[k].quantity = liq.pos.quantity
                    /\ events[k].entryPrice = liq.pos.entryPrice
                    /\ events[k].markPrice = liq.markPrice
       ELSE EventsOf(id) = {}

\* one position was liquidated with an event, another is still open
C7_Witness ==
  /\ Len(events) = 1
  /\ fpositions # <<>>
  /\ events[1].markPrice # events[1].entryPrice

\* C8: every position opened long has liquidationPrice < entryPrice and every
\* position opened short has liquidationPrice > entryPrice.
C8_LiquidationPriceSide ==
  \A i \in 1..Len(fpositions) :
    LET p == fpositions[i]
    IN /\ p.side = "long" => RLt(p.liquidationPrice, p.entryPrice)
       /\ p.side = "short" => RLt(p.entryPrice, p.liquidationPrice)

\* C9: every open futures position has
\* initialMargin = entryPrice * quantity / leverage, also after partial closes.
C9_InitialMargin ==
  \A i \in 1..Len(fpositions) :
    LET p == fpositions[i]
    IN p.initialMargin = RDiv(RMul(p.entryPrice, R(p.quantity)), R(p.leverage))

\* a partial close has just left its position open with fewer units
C9_Witness ==
  /\ lastOp.op = "closePosition" /\ lastOp.ok
  /\ \E i \in 1..Len(fpositions) :
       /\ fpositions[i].id = lastOp.id
       /\ fpositions[i].quantity = 1
       /\ lastOp.quantity = 4

\* C10: every open futures position's maintenanceMarginRate is the tier rate
\* of its current notional quantity * markPrice, also after a partial close.
C10_MaintenanceRateTier ==
  \A i \in 1..Len(fpositions) :
    LET p == fpositions[i]
        notional == RMul(R(p.quantity), p.markPrice)
    IN p.maintenanceMarginRate =
         (IF RLt(notional, R(50000)) THEN Frac(4, 1000)
          ELSE IF RLt(notional, R(250000)) THEN Frac(5, 1000)
          ELSE IF RLt(notional, R(1000000)) THEN Frac(1, 100)
          ELSE Frac(25, 1000))

\* ------------------------------------------------------------------------
\* C11: in every reachable state every open futures position's
\* liquidationPrice equals the closed form for its side computed from its
\* entryPrice, its leverage and its stored maintenanceMarginRate, also after
\* a mark refresh by getPositions and after a partial close
\* ------------------------------------------------------------------------
C11_LiquidationClosedForm ==
  \A i \in 1..Len(fpositions) :
    LET p == fpositions[i]
    IN p.liquidationPrice =
         calcLiquidationPrice(p.entryPrice, p.leverage,
                              p.maintenanceMarginRate, p.side)

\* ------------------------------------------------------------------------
\* C12: for a leverage in [1,150], setLeverage(ticker, lev) is rejected if
\* and only if an open position exists for the upper-cased ticker; a
\* rejected call leaves the leverage settings unchanged, an accepted call
\* changes only that ticker's setting and no open position
\* ------------------------------------------------------------------------
IsSetLeverage == IsNewOp /\ lastOp'.op = "setLeverage"

C12_SetLeverage ==
  [][(IsSetLeverage /\ lastOp'.leverage \in 1..150) =>
       LET t == ToUpperCase(lastOp'.raw)
           held == \E i \in 1..Len(fpositions) : fpositions[i].ticker = t
       IN /\ lastOp'.ok = ~held
          /\ fpositions' = fpositions
          /\ IF held THEN leverageSettings' = leverageSettings
             ELSE /\ leverageSettings'[t] = lastOp'.leverage
                  /\ \A u \in FuturesTickers \ {t} :
                       leverageSettings'[u] = leverageSettings[u]]_vars

\* a setLeverage in range was refused for a held ticker given in lower case,
\* after one for another ticker had been accepted
C12_Witness ==
  /\ lastOp.op = "setLeverage" /\ ~lastOp.ok
  /\ lastOp.leverage \in 1..150
  /\ lastOp.raw = "eth"
  /\ \E i \in 1..Len(fpositions) : fpositions[i].ticker = "ETH"
  /\ leverageSettings["BTC"] # 0

\* ------------------------------------------------------------------------
\* C13: openLong, openShort and setLeverage reject every leverage outside
\* [1,150] (0 and 151 in particular) without changing cash, positions,
\* leverage settings or transactions, and accept 1 and 150 when the other
\* preconditions hold; so every open position's leverage and every stored
\* leverage setting lies in [1,150]
\* ------------------------------------------------------------------------
IsLeverageOp == IsNewOp /\ lastOp'.op \in {"openPosition", "setLeverage"}

RECURSIVE BoughtQuantity(_, _)
\* total quantity of the buys of ticker logged in history h
BoughtQuantity(h, ticker) ==
  IF h = <<>> THEN 0
  ELSE BoughtQuantity(Tail(h), ticker) +
       (IF Head(h).type = "buy" /\ Head(h).ticker = ticker
        THEN Head(h).quantity ELSE 0)

RECURSIVE BoughtCost(_, _)
\* total quantity*price of the buys of ticker logged in history h
BoughtCost(h, ticker) ==
  IF h = <<>> THEN Zero
  ELSE RAdd(BoughtCost(Tail(h), ticker),
            IF Head(h).type = "buy" /\ Head(h).ticker = ticker
            THEN RMul(R(Head(h).quantity), Head(h).price) ELSE Zero)

OnlyBought(h, ticker) ==
  /\ \E k \in 1..Len(h) : h[k].ticker = ticker
  /\ \A k \in 1..Len(h) : h[k].ticker = ticker => h[k].type = "buy"

C14_WeightedAverage ==
  [][/\ (IsNewOp /\ lastOp'.op = "executeBuy" /\ lastOp'.ok) =>
          cash' = RSub(cash, RMul(R(lastOp'.quantity), lastOp'.price))
     /\ \A t \in {"NVDA", "ETH"} :
          OnlyBought(transactionHistory', t) =>
            /\ t \in DOMAIN holdings'
            /\ holdings'[t].quantity = BoughtQuantity(transactionHistory', t)
            /\ holdings'[t].averagePrice =
                 RDiv(BoughtCost(transactionHistory', t),
                      R(BoughtQuantity(transactionHistory', t)))]_vars

\* three buys of NVDA at two different prices, merged into one holding
C14_Witness ==
  /\ OnlyBought(transactionHistory, "NVDA")
  /\ Len(transactionHistory) = 3
  /\ \E j, k \in 1..3 : transactionHistory[j].price # transactionHistory[k].price
  /\ lastOp.op = "executeBuy" /\ lastOp.ok
  /\ holdings["NVDA"].averagePrice \notin {R(800), R(900)}

\* ------------------------------------------------------------------------
\* C15: in every reachable state each ticker has at most one holding and
\* every holding has quantity > 0 and averagePrice > 0; a sell that brings
\* the quantity to zero removes the holding
\* ------------------------------------------------------------------------
C15_HoldingsPositive ==
  \A t \in DOMAIN holdings :
    /\ holdings[t].quantity > 0
    /\ RLt(Zero, holdings[t].averagePrice)
    \* holdings are keyed by the upper-cased ticker: one entry per ticker
    /\ t = ToUpperCase(t)

\* the whole holding of one ticker was sold and is gone, another is held
C15_Witness ==
  /\ lastOp.op = "executeSell" /\ lastOp.ok
  /\ lastOp.ticker \notin DOMAIN holdings
  /\ DOMAIN holdings # {}

\* ------------------------------------------------------------------------
\* C16: in every reachable state every spot holding opened through the spot
\* engine carries an assetClass in {us_stock_spot, crypto_spot}; a partial
\* sell keeps the holding's averagePrice and assetClass
\* ------------------------------------------------------------------------
C16_AssetClassKept ==
  \A t \in DOMAIN holdings :
    holdings[t].assetClass \in {"us_stock_spot", "crypto_spot"}

\* the stored state of the ledger and of the three engines is left as it was
StoresUnchanged ==
  UNCHANGED <<cash, holdings, transactionHistory, tickerTypes, fpositions,
              leverageSettings, ftransactions, opositions, otransactions>>

\* the position with this id in positions (only used when it exists)
PositionOf(positions, id) == positions[PosIndex(positions, id)]

\* ------------------------------------------------------------------------
\* C17: a spot sell, a futures close or an option sell whose amount exceeds
\* the amount currently held, or whose ticker or position holds nothing, is
\* rejected with success=false and leaves cash, holdings, positions and all
\* transaction logs unchanged
\* ------------------------------------------------------------------------
SellsMoreThanHeld ==
  \/ /\ lastOp'.op = "executeSell"
     /\ \/ lastOp'.ticker \notin DOMAIN holdings
        \/ /\ lastOp'.ticker \in DOMAIN holdings
           /\ lastOp'.quantity > holdings[lastOp'.ticker].quantity
  \/ /\ lastOp'.op = "closePosition"
     /\ \/ lastOp'.id \notin PositionIds(fpositions)
        \/ /\ lastOp'.id \in PositionIds(fpositions)
           /\ lastOp'.quantity > PositionOf(fpositions, lastOp'.id).quantity
  \/ /\ lastOp'.op = "sellOption"
     /\ \/ lastOp'.id \notin PositionIds(opositions)
        \/ /\ lastOp'.id \in PositionIds(opositions)
           /\ lastOp'.quantity > PositionOf(opositions, lastOp'.id).contracts

C17_OversellRejected ==
  [][(IsNewOp /\ SellsMoreThanHeld) =>
       (~lastOp'.ok /\ ~lastOp'.raised /\ StoresUnchanged)]_vars

\* a sell of 5 contracts of an option position that holds fewer was refused
\* although the quote was there
C17_Witness ==
  /\ lastOp.op = "sellOption" /\ ~lastOp.ok /\ ~lastOp.quoteFailed
  /\ lastOp.id \in PositionIds(opositions)
  /\ lastOp.quantity > PositionOf(opositions, lastOp.id).contracts

\* ------------------------------------------------------------------------
\* C18: when the quote provider fails during executeBuy, executeSell,
\* openLong, openShort, closePosition, buyOption or sellOption, the
\* operation returns success=false and cash, holdings, futures and options
\* positions, leverage settings and all transaction logs are as before
\* ------------------------------------------------------------------------
QuotedOps == {"executeBuy", "executeSell", "openPosition", "closePosition",
              "buyOption", "sellOption"}

C18_QuoteFailureNoChange ==
  [][(IsNewOp /\ lastOp'.op \in QuotedOps /\ lastOp'.quoteFailed) =>
       (~lastOp'.ok /\ ~lastOp'.raised /\ StoresUnchanged)]_vars

\* the quote failed for a sell of an option position that was otherwise
\* valid, the option buy being the only logged option transaction
C18_Witness ==
  /\ lastOp.op = "sellOption" /\ lastOp.quoteFailed
  /\ lastOp.id \in PositionIds(opositions)
  /\ lastOp.quantity <= PositionOf(opositions, lastOp.id).contracts
  /\ Len(otransactions) = 1

\* ------------------------------------------------------------------------
\* C19: no public engine operation ends by raising an error to its caller:
\* under quote-provider failure every operation of the spot, futures and
\* options engines (getQuote included) completes by returning a result
\* ------------------------------------------------------------------------
C19_NeverRaises == ~lastOp.raised

\* ------------------------------------------------------------------------
\* C20: buyOption with an option type other than call or put is rejected
\* with success=false and no change to cash, positions or transactions;
\* likewise with contracts <= 0 or with an expiry instant not in the future
\* ------------------------------------------------------------------------
C20_BuyOptionValidation ==
  [][(/\ IsNewOp
      /\ lastOp'.op = "buyOption"
      /\ \/ lastOp'.side \notin {"call", "put"}
         \/ lastOp'.quantity <= 0
         \/ ExpiryInstant(lastOp'.expiry) <= now) =>
       (~lastOp'.ok /\ StoresUnchanged)]_vars

\* the step is a run of settleExpiredOptions
IsSettle == IsNewOp /\ lastOp'.op = "settleExpiredOptions"

\* the position has reached its expiry instant and the run got its quote
Settleable(p) ==
  /\ now >= 24 * p.expiryDate + 21
  /\ lastOp'.quotes[p.id] # Undefined

\* intrinsic * 100 * contracts of position p with the underlying at S
ExpectedSettlement(p, S) ==
  LET K == R(p.strikePrice)
      intrinsic == IF p.type = "call" THEN RMax(RSub(S, K), Zero)
                   ELSE RMax(RSub(K, S), Zero)
  IN RMul(intrinsic, R(100 * p.contracts))

RECURSIVE PayoutSum(_, _)
PayoutSum(positions, quotes) ==
  IF positions = <<>> THEN Zero
  ELSE RAdd(ExpectedSettlement(Head(positions), quotes[Head(positions).id]),
            PayoutSum(Tail(positions), quotes))

\* ------------------------------------------------------------------------
\* C21: settleExpiredOptions, for every position whose expiry instant has
\* passed and whose underlying quote S is available, removes the position
\* and appends one expiry transaction with pnl = settlement - premiumPaid,
\* settlement = intrinsic*100*contracts; cash is credited by exactly
\* settlement when intrinsic > 0 (expire_itm) and is unchanged when
\* intrinsic = 0 (expire_otm)
\* ------------------------------------------------------------------------
C21_Settlement ==
  [][IsSettle =>
       LET settled == SelectSeq(opositions, LAMBDA p : Settleable(p))
           n == Len(otransactions)
       IN /\ opositions' = SelectSeq(opositions, LAMBDA p : ~Settleable(p))
          /\ Len(otransactions') = n + Len(settled)
          /\ SubSeq(otransactions', 1, n) = otransactions
          /\ \A k \in 1..Len(settled) :
               LET p == settled[k]
                   v == ExpectedSettlement(p, lastOp'.quotes[p.id])
                   t == otransactions'[n + k]
               IN /\ t.type = IF RLt(Zero, v) THEN "expire_itm"
                              ELSE "expire_otm"
                  /\ t.totalAmount = v
                  /\ t.pnl = RSub(v, p.premiumPaid)
                  /\ t.contracts = p.contracts
                  /\ t.underlying = p.underlying
          /\ cash' = RAdd(cash, PayoutSum(settled, lastOp'.quotes))]_vars

\* one run settled two expired positions, one in the money and one out of it
C21_Witness ==
  /\ lastOp.op = "settleExpiredOptions"
  /\ opositions = <<>>
  /\ Len(otransactions) = 4
  /\ {otransactions[3].type, otransactions[4].type} =
       {"expire_itm", "expire_otm"}

\* ------------------------------------------------------------------------
\* C22: settleExpiredOptions changes nothing (cash, option positions, option
\* transactions, emitted events) when no position has reached its expiry
\* instant, never removes or pays out a position whose expiry instant is
\* still in the future, and a second run right after a run in which all
\* quotes succeeded changes nothing
\* ------------------------------------------------------------------------
C22_SettleIdempotent ==
  [][IsSettle =>
       /\ \A i \in 1..Len(opositions) :
            now < 24 * opositions[i].expiryDate + 21 =>
              \E j \in 1..Len(opositions') : opositions'[j] = opositions[i]
       /\ (\A i \in 1..Len(opositions) :
             now < 24 * opositions[i].expiryDate + 21) =>
            UNCHANGED <<cash, opositions, otransactions, events>>
       /\ (/\ lastOp.op = "settleExpiredOptions"
           /\ lastOp.at = now
           /\ \A id \in DOMAIN lastOp.quotes : lastOp.quotes[id] # Undefined) =>
            UNCHANGED <<cash, opositions, otransactions, events>>]_vars

\* a run settled an expired position and kept one that expires later
C22_Witness ==
  /\ lastOp.op = "settleExpiredOptions"
  /\ DOMAIN lastOp.quotes # {}
  /\ \A id \in DOMAIN lastOp.quotes : lastOp.quotes[id] # Undefined
  /\ Len(opositions) = 1
  /\ now < 24 * opositions[1].expiryDate + 21
  /\ Len(otransactions) = 3

\* ------------------------------------------------------------------------
\* C23: if the underlying quote fails while settling an expired option
\* position, that position stays open and cash and transactions are
\* unchanged for it, while other expired positions of the run are still
\* settled; with settlement runs that keep occurring and a quote that
\* eventually succeeds, every expired position is eventually settled and
\* removed
\* ------------------------------------------------------------------------
QuoteFailedFor(p) ==
  /\ now >= 24 * p.expiryDate + 21
  /\ lastOp'.quotes[p.id] = Undefined

C23_SettleRetries ==
  /\ [][lastOp'.op = "settleExpiredOptions" /\ lastOp' # lastOp =>
          /\ \A i \in 1..Len(opositions) :
               QuoteFailedFor(opositions[i]) =>
                 \E j \in 1..Len(opositions') : opositions'[j] = opositions[i]
          /\ \A i \in 1..Len(opositions) :
               Settleable(opositions[i]) =>
                 opositions[i].id \notin PositionIds(opositions')
          /\ Len(otransactions') - Len(otransactions) =
               Len(SelectSeq(opositions, LAMBDA p : Settleable(p)))
          /\ (\A i \in 1..Len(opositions) : ~Settleable(opositions[i])) =>
               UNCHANGED <<cash, opositions, otransactions, events>>]_vars
  /\ \A id \in 1..MaxLiveOps :
       (/\ id \in PositionIds(opositions)
        /\ now >= 24 * PositionOf(opositions, id).expiryDate + 21)
         ~> (id \notin PositionIds(opositions))

\* a run left one expired position open because its quote failed and
\* settled the other
C23_Witness ==
  /\ lastOp.op = "settleExpiredOptions"
  /\ \E id \in DOMAIN lastOp.quotes :
       lastOp.quotes[id] = Undefined /\ id \in PositionIds(opositions)
  /\ \E id \in DOMAIN lastOp.quotes :
       lastOp.quotes[id] # Undefined /\ id \notin PositionIds(opositions)

\* ------------------------------------------------------------------------
\* C24: a successful sellOption of d contracts of a position holding n adds
\* currentPremium*100*d to cash and reports pnl = proceeds -
\* (premiumPaid/n)*d; the position is removed when d = n, and otherwise keeps
\* n - d > 0 contracts with premiumPaid reduced proportionally, so that
\* premiumPaid/contracts is the same before and after a partial sell
\* ------------------------------------------------------------------------
IsOptionSell == IsNewOp /\ lastOp'.op = "sellOption" /\ lastOp'.ok

C24_SellOption ==
  [][IsOptionSell =>
       LET id == lastOp'.id
           pos == PositionOf(opositions, id)
           n == pos.contracts
           d == lastOp'.quantity
           currentPremium ==
             calcPremium(lastOp'.price, R(pos.strikePrice),
                         calcDaysToExpiry(pos.expiryDate, now),
                         pos.impliedVol, pos.type)
           proceeds == RMul(RMul(currentPremium, R(100)), R(d))
           t == otransactions'[Len(otransactions')]
       IN /\ id \in PositionIds(opositions)
          /\ d \in 1..n
          /\ cash' = RAdd(cash, proceeds)
          /\ lastOp'.pnl = RSub(proceeds, RMul(RDiv(pos.premiumPaid, R(n)),
                                               R(d)))
          /\ t.pnl = lastOp'.pnl
          /\ IF d = n THEN id \notin PositionIds(opositions')
             ELSE /\ id \in PositionIds(opositions')
                  /\ LET q == PositionOf(opositions', id)
                     IN /\ q.contracts = n - d
                        /\ q.contracts > 0
                        /\ q.premiumPaid =
                             RDiv(RMul(pos.premiumPaid, R(n - d)), R(n))
                        /\ RDiv(q.premiumPaid, R(q.contracts)) =
                             RDiv(pos.premiumPaid, R(n))]_vars

\* a position bought with three contracts holds one after two partial sells
\* of one contract each
C24_Witness ==
  /\ lastOp.op = "sellOption"
  /\ lastOp.ok
  /\ lastOp.quantity = 1
  /\ Len(otransactions) = 3
  /\ otransactions[2].type \in {"sell_call", "sell_put"}
  /\ Len(opositions) = 1
  /\ opositions[1].contracts = 1
  /\ RLt(Zero, opositions[1].premiumPaid)

\* ------------------------------------------------------------------------
\* C25: loading a store whose file is absent writes the defaults to the file
\* and returns a deep copy of them (cash 100000, no holdings, no
\* transactions); mutations of the returned data never change the defaults
\* that a later first-run load uses
\* ------------------------------------------------------------------------
IsFirstRunReturn(path) ==
  stores[path].pc = "firstRun" /\ stores'[path].pc = "ready"

C25_FirstRunDefaults ==
  /\ [](heap[DefaultRef] = DEFAULT_DATA)
  /\ [][\A path \in StoragePaths :
          IsFirstRunReturn(path) =>
            LET data == heap'[stores'[path].ref]
                file == TargetPath(path)
            IN /\ stores'[path].ref # DefaultRef
               /\ data.cash = 100000
               /\ data.holdings = {}
               /\ data.transactionHistory = <<>>
               /\ file \in DOMAIN disk'
               /\ Parses(disk'[file])
               /\ JsonParse(disk'[file]) = data]_vars

\* the store of one path was loaded first-run and its data changed by an
\* operation; the first-run load of the other path, started after that,
\* returned the defaults
C25_Witness ==
  \E p, q \in StoragePaths :
    /\ p # q
    /\ stores[p].pc = "ready"
    /\ stores[q].pc = "ready"
    /\ heap[stores[p].ref] # DEFAULT_DATA
    /\ heap[stores[q].ref] = DEFAULT_DATA
    /\ \E i, j \in 1..Len(saves) :
         /\ i < j
         /\ saves[i].path = p /\ saves[i].ref = stores[p].ref
         /\ saves[j].path = q /\ saves[j].ref = DefaultRef

\* ------------------------------------------------------------------------
\* C26: at every instant, with any number of saves to the same file under
\* way and also after the process stopped midway, the target file is absent
\* or holds one complete serialization of a state that was passed to save
\* ------------------------------------------------------------------------
C26_NeverTorn ==
  \A path \in StoragePaths :
    TargetPath(path) \in DOMAIN disk =>
      \E i \in 1..Len(saves) :
        /\ saves[i].path = path
        /\ disk[TargetPath(path)] = Stringify(saves[i].passed)

\* the process stopped while two saves to one file were under way, one of
\* them with half of its temporary file written
C26_Witness ==
  \E i, j \in 1..Len(saves) :
    /\ i # j
    /\ saves[i].path = saves[j].path
    /\ saves[i].pc = "dead"
    /\ saves[j].pc = "dead"
    /\ TmpPath(saves[i].path, i) \in DOMAIN disk
    /\ Len(disk[TmpPath(saves[i].path, i)]) = 1
    /\ TargetPath(saves[i].path) \in DOMAIN disk

\* ------------------------------------------------------------------------
\* C27: concurrent saves to one file are serialized, last writer wins: once
\* every save under way has completed, the file holds the data of the save
\* that started last, the latest in-memory state
\* ------------------------------------------------------------------------
SavesOf(path) == {i \in 1..Len(saves) : saves[i].path = path}

LastSaveOf(path) ==
  CHOOSE i \in SavesOf(path) : \A j \in SavesOf(path) : j <= i

C27_LastWriterWins ==
  \A path \in StoragePaths :
    (/\ stores[path].pc = "ready"
     /\ SavesOf(path) # {}
     /\ \A i \in SavesOf(path) : saves[i].pc = "done") =>
      /\ disk[TargetPath(path)] = Stringify(saves[LastSaveOf(path)].passed)
      /\ disk[TargetPath(path)] = Stringify(heap[stores[path].ref])

\* ------------------------------------------------------------------------
\* C28: each service accessor is memoized: all calls, also those that
\* overlap before the first initialisation has finished, resolve to the same
\* service instance, and the store is loaded at most once
\* ------------------------------------------------------------------------
C28_Memoized ==
  \A svc \in Services :
    LET s == services[svc]
    IN /\ s.loads <= 1
       /\ \A c, d \in 1..Len(s.calls) :
            /\ s.calls[c].promise = s.calls[d].promise
            /\ (s.calls[c].got > 0 /\ s.calls[d].got > 0) =>
                 s.calls[c].got = s.calls[d].got

\* two calls, the second one made while the initialisation was under way,
\* have both received the instance
C28_Witness ==
  \E svc \in Services :
    LET s == services[svc]
    IN /\ Len(s.calls) = 2
       /\ s.calls[2].early
       /\ s.calls[1].got > 0
       /\ s.calls[2].got = s.calls[1].got
       /\ s.loads = 1

\* ------------------------------------------------------------------------
\* C29: a quote provider serves a symbol from its cache, without a fetch,
\* when the request comes less than 30 s after the fetch that cached it
\* (symbols compared case-insensitively); it fetches anew at 30 s or later
\* and after clearCache; a failed fetch neither stores nor overwrites a
\* cache entry
\* ------------------------------------------------------------------------
IsQuoteEvent(kinds) ==
  lastQuote'.seq = lastQuote.seq + 1 /\ lastQuote'.kind \in kinds

C29_CacheTtl ==
  [][(IsQuoteEvent({"cached", "fetch"}) =>
        LET p == lastQuote'.provider
            k == ToUpperCase(lastQuote'.symbols[1])
        IN IF /\ k \in DOMAIN fetched[p]
              /\ dateNow - fetched[p][k].timestamp < 30000
           THEN /\ lastQuote'.kind = "cached"
                /\ lastQuote'.price = fetched[p][k].price
                /\ pending' = pending
           ELSE /\ lastQuote'.kind = "fetch"
                /\ Len(pending') = Len(pending) + 1)
     /\ ((IsQuoteEvent({"answer"}) /\ lastQuote'.threw) =>
           qcache' = qcache)]_vars

\* a request in lower case was served, 15 s after the fetch, from the entry
\* cached under the upper-case key
C29_Witness ==
  /\ lastQuote.kind = "cached"
  /\ lastQuote.symbols = <<"btcusdt">>
  /\ "BTCUSDT" \in DOMAIN fetched["binance"]
  /\ dateNow - fetched["binance"]["BTCUSDT"].timestamp = 15000
  /\ lastQuote.price = fetched["binance"]["BTCUSDT"].price

\* ------------------------------------------------------------------------
\* C30: in a bulk quote call of either provider the failure of one symbol
\* does not fail the batch: the call returns one entry per requested symbol,
\* with price 0 for a symbol that failed and the fetched or cached price for
\* the others
\* ------------------------------------------------------------------------
C30_BulkNeverFails ==
  [][IsQuoteEvent({"fetchQuotes"}) =>
       LET p == lastQuote'.provider
           symbols == lastQuote'.symbols
           results == lastQuote'.results
       IN /\ ~lastQuote'.threw
          /\ Len(results) = Len(symbols)
          /\ \A i \in 1..Len(symbols) :
               LET k == ToUpperCase(symbols[i])
               IN \E j \in 1..Len(results) :
                    /\ results[j].symbol = k
                    /\ results[j].price =
                         IF Cached(p, k) THEN qcache[p][k].price
                         ELSE IF lastQuote'.outcomes[k] = Undefined THEN Zero
                         ELSE lastQuote'.outcomes[k]]_vars

\* ------------------------------------------------------------------------
\* C34: a futures position id is present from its successful open until its
\* full close or its liquidation and never afterwards; a partial close
\* keeps it present with a strictly smaller positive quantity; once it is
\* removed, closePosition(id) fails and liquidatePosition(id) returns null,
\* and neither changes cash, positions or transactions
\* ------------------------------------------------------------------------
C34_Lifecycle ==
  [][\A id \in 1..nextId :
       LET i == PosIndex(fpositions, id)
           j == PosIndex(fpositions', id)
           onId == lastOp'.id = id /\ (IsNewOp \/ IsMonitorStep)
           closes == onId /\ IsNewOp /\ lastOp'.op = "closePosition"
           liquidates == onId /\ IsMonitorStep
                              /\ lastOp'.op = "liquidationStep"
       IN /\ (i = 0 /\ j # 0) =>
               /\ id = nextId
               /\ onId /\ lastOp'.op = "openPosition" /\ lastOp'.ok
          /\ (i # 0 /\ j = 0) =>
               /\ lastOp'.ok
               /\ \/ closes /\ lastOp'.quantity = fpositions[i].quantity
                  \/ liquidates
          /\ (i # 0 /\ lastOp'.ok /\ liquidates) => j = 0
          /\ (i # 0 /\ lastOp'.ok /\ closes) =>
               IF lastOp'.quantity = fpositions[i].quantity THEN j = 0
               ELSE /\ j # 0
                    /\ fpositions'[j].quantity > 0
                    /\ fpositions'[j].quantity < fpositions[i].quantity
          /\ (i = 0 /\ id < nextId) =>
               /\ j = 0
               /\ (closes \/ liquidates) =>
                    /\ ~lastOp'.ok
                    /\ UNCHANGED <<cash, fpositions, ftransactions>>]_vars

\* closePosition was called on a position that had been opened and is gone,
\* and found nothing
C34_Witness ==
  /\ lastOp.op = "closePosition"
  /\ ~lastOp.ok
  /\ ~lastOp.quoteFailed
  /\ lastOp.id \in DOMAIN ledger
  /\ PosIndex(fpositions, lastOp.id) = 0

IsSnapshot == IsNewOp /\ lastOp'.op = "getEnrichedSnapshot"

\* ------------------------------------------------------------------------
\* C31: in the enriched snapshot every spot holding whose quote could not
\* be obtained (the whole source failed, or that one symbol failed) is
\* valued at its averagePrice, so its market value is its cost basis and
\* its pnl is 0; a holding with a quote is valued at the quoted price
\* ------------------------------------------------------------------------
C31_FallbackToAverage ==
  [][IsSnapshot =>
       \A key \in DOMAIN holdings :
         LET row == lastOp'.snapshot.spotHoldings[key]
             holding == holdings[key]
             quotes == lastOp'.quotes
             isStock == getTickerType(key) = "stock"
             obtained ==
               IF isStock THEN quotes[key] # Undefined
               ELSE \A t \in DOMAIN holdings :
                      getTickerType(t) = "crypto" =>
                        quotes[MarkSymbol(t)] # Undefined
             quoted == quotes[IF isStock THEN key ELSE MarkSymbol(key)]
         IN IF obtained
            THEN /\ row.currentPrice = quoted
                 /\ row.marketValue = RMul(R(holding.quantity), quoted)
            ELSE /\ row.currentPrice = holding.averagePrice
                 /\ row.marketValue = row.costBasis
                 /\ row.pnl = Zero]_vars

\* ------------------------------------------------------------------------
\* C33: reset(c) sets cash to c (100,000 when omitted) and empties the spot
\* holdings and the spot transaction history; the futures positions,
\* leverage settings and transactions and the options positions and
\* transactions stay exactly as they were
\* ------------------------------------------------------------------------
C33_ResetFrame ==
  [][(IsNewOp /\ lastOp'.op = "reset") =>
       /\ cash' = IF lastOp'.quantity = UndefinedArg THEN R(100000)
                  ELSE R(lastOp'.quantity)
       /\ holdings' = EmptyMap
       /\ transactionHistory' = <<>>
       /\ UNCHANGED <<fpositions, leverageSettings, ftransactions,
                      opositions, otransactions>>]_vars

\* reset ran with an explicit amount on an account that had spent cash on
\* spot holdings and held a futures position, and the position is still
\* there
C33_Witness ==
  /\ lastOp.op = "reset"
  /\ lastOp.quantity # UndefinedArg
  /\ cash = R(lastOp.quantity)
  /\ holdings = EmptyMap
  /\ fpositions # <<>>
  /\ RLt(RAdd(lastOp.cashBefore, fpositions[1].initialMargin), R(100000))

\* one price per symbol, the same for every fetch
PriceMaps ==
  {[s \in {"BTCUSDT", "ETHUSDT", "NVDA", "AAPL"} |->
      CASE s = "BTCUSDT" -> b [] s = "ETHUSDT" -> e
        [] s = "NVDA" -> n [] OTHER -> a] :
     b \in QuotePrices("BTCUSDT"), e \in QuotePrices("ETHUSDT"),
     n \in StockQuotePrices("NVDA"), a \in StockQuotePrices("AAPL")}

\* totalEquity of the snapshot taken on the account st = <<cash, holdings,
\* tickerTypes, futures positions, options positions>> when every fetch
\* answers with the prices P
EquityAt(st, P) ==
  EnrichedSnapshot(
    [cash |-> st[1], holdings |-> st[2]],
    [key \in DOMAIN st[2] |->
       P[IF key \in DOMAIN st[3] /\ st[3][key] = "stock" THEN key
         ELSE MarkSymbol(key)]],
    [i \in DOMAIN st[4] |->
       Refreshed(st[4][i], P[MarkSymbol(st[4][i].ticker)])],
    [i \in DOMAIN st[5] |->
       RefreshedOption(st[5][i], P[st[5][i].underlying])]).totalEquity

\* the step is a successful trade of one of the three product lines, filled
\* at the price P has for its symbol; a close hands back what it released
IsTradeAt(P) ==
  /\ IsNewOp
  /\ lastOp'.ok
  /\ lastOp'.op \in {"executeBuy", "executeSell", "openPosition",
                     "closePosition", "buyOption", "sellOption"}
  /\ lastOp'.price =
       P[IF lastOp'.op \in {"buyOption", "sellOption"} THEN lastOp'.ticker
         ELSE IF lastOp'.op \in {"executeBuy", "executeSell"}
                 /\ lastOp'.side = "stock" THEN lastOp'.ticker
         ELSE MarkSymbol(lastOp'.ticker)]
  /\ lastOp'.op = "closePosition" =>
       LET pos == fpositions[PosIndex(fpositions, lastOp'.id)]
       IN RLe(Zero, RAdd(MarginReleased(pos, lastOp'.quantity),
                         calcUnrealizedPnl(pos.side, lastOp'.quantity,
                                           pos.entryPrice, lastOp'.price)))

CallsOn(id) ==
  {k \in 1..Len(inflight) :
     /\ inflight[k].id = id
     /\ inflight[k].op \in {"closePosition", "liquidatePosition"}}

\* ... that have gone through adjustCash
PaidCalls(id) ==
  {k \in CallsOn(id) :
     inflight[k].pc \in {"ledger", "save"} \/ inflight[k].ok}

\* C35: for each futures position, also when closePosition and
\* liquidatePosition calls on its id overlap at their awaits, the total
\* quantity closed is at most the quantity opened, the total margin released
\* to cash is at most the initialMargin debited at open, and at most one call
\* removes the position
C35_NoDoubleClose ==
  \A id \in DOMAIN ledger :
    /\ RLe(RSumOver([k \in CallsOn(id) |-> R(inflight[k].quantity)],
                    {k \in CallsOn(id) : inflight[k].logged}),
           R(ledger[id].opened))
    /\ RLe(RSumOver([k \in CallsOn(id) |-> inflight[k].marginReleased],
                    PaidCalls(id)),
           ledger[id].debited)
    /\ Cardinality({k \in CallsOn(id) : inflight[k].removed}) <= 1

\* the contracts of the transactions of these types in the options log
ContractsLogged(types) ==
  RSumOver([i \in 1..Len(otransactions) |-> R(otransactions[i].contracts)],
           {i \in 1..Len(otransactions) : otransactions[i].type \in types})

\* C36: each option contract is paid out at most once, also when sellOption
\* calls and settleExpiredOptions runs overlap at their awaits: the
\* contracts sold plus the contracts settled are at most the contracts
\* bought, and so are the contracts for which cash was credited as sale
\* proceeds or as expiry settlement
C36_PaidOnce ==
  \E bought \in {ContractsLogged({"buy_call", "buy_put"})} :
    /\ RLe(ContractsLogged({"sell_call", "sell_put", "expire_itm",
                            "expire_otm"}),
           bought)
    /\ RLe(RSumOver([k \in 1..Len(inflight) |-> R(inflight[k].paidQty)],
                    {k \in 1..Len(inflight) :
                       inflight[k].op \in {"sellOption",
                                           "settleExpiredOptions"}}),
           bought)

\* C40: the transaction returned by a successful executeBuy or executeSell
\* describes that call's own trade (its upper-cased ticker, its quantity and
\* its execution price), also when another spot trade is executed while the
\* call is suspended in its save
C40_OwnTransaction ==
  \A k \in 1..Len(inflight) :
    LET call == inflight[k]
    IN (call.op \in {"executeBuy", "executeSell"} /\ call.ok) =>
         call.transaction =
           SpotTxn(IF call.op = "executeBuy" THEN "buy" ELSE "sell",
                   call.ticker, call.quantity, call.price)

\* the closes and liquidations of position id that credited cash and whose
\* credit portfolio.json reflects
ReleasesOnFile(id) ==
  {k \in files.portfolio.paid :
     /\ inflight[k].id = id
     /\ inflight[k].op \in {"closePosition", "liquidatePosition"}
     /\ RLt(Zero, inflight[k].cashReturn)}

\* C38: whenever the process stops and its state is reloaded from
\* portfolio.json and the futures file, every position that is open in the
\* futures file has its margin debited in the reloaded cash, and the margin
\* it still holds plus the margin releases credited in the reloaded cash stay
\* within the margin debited at its open (no margin that an open position
\* still holds is already back in the cash)
C38_FilesConsistent ==
  \A i \in 1..Len(files.futures.positions) :
    LET p == files.futures.positions[i]
    IN /\ \E k \in files.portfolio.paid :
            inflight[k].op = "openPosition" /\ inflight[k].id = p.id
       /\ RLe(RAdd(p.initialMargin,
                   RSumOver([k \in ReleasesOnFile(p.id) |->
                               inflight[k].marginReleased],
                            ReleasesOnFile(p.id))),
              ledger[p.id].debited)

\* C32: background monitor ticks never overlap: a tick scheduled while the
\* prior run is still running is skipped, neither started nor queued, so at
\* most one run of checkFuturesLiquidation and at most one run of
\* settleExpiredOptions is in progress at any time
C32_NoOverlap ==
  /\ [](\A m \in Monitors : timers[m].running <= 1)
  /\ [][\A m \in Monitors :
          (timers[m].running > 0 /\ timers'[m].fired = timers[m].fired + 1) =>
            /\ timers'[m].running = timers[m].running
            /\ timers'[m].skipped = timers[m].skipped + 1]_vars

\* a tick was skipped while the run it would have overlapped still goes on
C32_Witness ==
  \E m \in Monitors : timers[m].skipped > 0 /\ timers[m].running = 1

====
